---- MODULE Spec2Model ----
(***************************************************************************)
(* Authentication / authorization core of the data-management API.        *)
(*                                                                         *)
(* Byte strings are sequences of one-character strings.  HMAC-SHA256 is   *)
(* modelled as an ideal MAC: the digest of (key, message) is a term that   *)
(* is different for different (key, message) pairs, written out as a       *)
(* sequence of characters so that a single character of it can be changed. *)
(***************************************************************************)
EXTENDS Integers, Sequences, FiniteSets, TLC

VARIABLES
    settings,   \* core.config.settings: the fields the auth core reads
    api_keys,   \* the api_keys table: id -> credential record
    now,        \* int(time.time())
    conn,       \* the request being served: idle, or the request with its response
    hm,         \* one application of the HMAC verifier: inputs and result
    kv,         \* one application of the credential hasher: inputs and result
    gc,         \* the group-membership cache, the directory behind it, and the last call
    db          \* the rows the routers read and write, and the calls made on them

vars == <<settings, api_keys, now, conn, hm, kv, gc, db>>

None == "None"

(***************************************************************************)
(* Bounds of the model.                                                    *)
(***************************************************************************)
\* JSON member values range over 1..MaxVal
MaxVal == 2
\* the clock value the verifier is exercised at
Now0 == 1000

(***************************************************************************)
(* Settings.ML_HMAC_TIMESTAMP_SKEW_SECONDS default, and the default of the *)
(* skew_seconds parameter of verify_hmac_signature(_flexible).             *)
(***************************************************************************)
DefaultSkewSeconds == 300

\* values a deployment may configure for ML_HMAC_TIMESTAMP_SKEW_SECONDS
SkewValues == {60, DefaultSkewSeconds, 600}

(***************************************************************************)
(* Characters, decimal numbers.                                            *)
(***************************************************************************)
DigitChars == <<"0", "1", "2", "3", "4", "5", "6", "7", "8", "9">>

Digits == {DigitChars[i] : i \in 1..10}

DigitVal(c) == CHOOSE d \in 0..9 : DigitChars[d + 1] = c

\* str.isdigit(): non-empty and every character a digit
IsDigit(s) == Len(s) > 0 /\ \A i \in 1..Len(s) : s[i] \in Digits

RECURSIVE ParseInt(_)
\* int(s) of a digit string
ParseInt(s) ==
    IF Len(s) = 0 THEN 0
    ELSE 10 * ParseInt(SubSeq(s, 1, Len(s) - 1)) + DigitVal(s[Len(s)])

RECURSIVE ToDigits(_)
\* str(n) of n >= 0
ToDigits(n) ==
    IF n < 10 THEN <<DigitChars[n + 1]>>
    ELSE ToDigits(n \div 10) \o <<DigitChars[(n % 10) + 1]>>

TwoDigits(n) == <<DigitChars[(n \div 10) + 1], DigitChars[(n % 10) + 1]>>

(***************************************************************************)
(* Timestamps.  The verifier takes the X-ML-Timestamp header as a string:  *)
(* a digit string is an epoch, anything else goes to                       *)
(* datetime.fromisoformat(timestamp.replace('Z', '+00:00')).  The ISO      *)
(* strings of the model are the UTC instants of the first hour of the      *)
(* epoch, "1970-01-01T00:MM:SSZ"; the other non-digit strings of the model *)
(* are shorter than any ISO date and raise ValueError.                     *)
(***************************************************************************)
IsoHourPrefix == <<"1", "9", "7", "0", "-", "0", "1", "-", "0", "1", "T", "0", "0", ":">>

\* datetime.isoformat of epoch second n (n < 3600), with the Z suffix
IsoFormat(n) ==
    IsoHourPrefix \o TwoDigits(n \div 60) \o <<":">> \o TwoDigits(n % 60) \o <<"Z">>

IsIsoShape(ts) ==
    /\ Len(ts) = 20
    /\ SubSeq(ts, 1, 14) = IsoHourPrefix
    /\ ts[15] \in {"0", "1", "2", "3", "4", "5"} /\ ts[16] \in Digits
    /\ ts[17] = ":"
    /\ ts[18] \in {"0", "1", "2", "3", "4", "5"} /\ ts[19] \in Digits
    /\ ts[20] = "Z"

\* the try-block's timestamp parse: [ok, ts]; ok = FALSE stands for the
\* ValueError that the except clause turns into "return False"
ParseTimestamp(timestamp) ==
    IF IsDigit(timestamp) THEN [ok |-> TRUE, ts |-> ParseInt(timestamp)]
    ELSE IF IsIsoShape(timestamp)
         THEN [ok |-> TRUE,
               ts |-> 60 * ParseInt(SubSeq(timestamp, 15, 16))
                      + ParseInt(SubSeq(timestamp, 18, 19))]
         ELSE [ok |-> FALSE, ts |-> 0]

Abs(x) == IF x < 0 THEN -x ELSE x

(***************************************************************************)
(* HMAC-SHA256 and the signature header.                                   *)
(***************************************************************************)
\* hmac.new(secret, msg, sha256).hexdigest(), as an ideal MAC
Hexdigest(secret, msg) == <<secret>> \o msg

Sha256Prefix == <<"s", "h", "a", "2", "5", "6", "=">>

StartsWith(s, p) == Len(s) >= Len(p) /\ SubSeq(s, 1, Len(p)) = p

\* s.split('=', 1)[1] of a string that contains '='
AfterFirstEq(s) ==
    LET i == CHOOSE k \in 1..Len(s) : s[k] = "=" /\ \A j \in 1..(k - 1) : s[j] # "="
    IN  SubSeq(s, i + 1, Len(s))

\* a MAC over the body alone: the timestamp is not authenticated
SignedMessage_BodyOnly(timestamp, body) == body

\* timestamp.encode('utf-8') + b'.' + body
SignedMessage(timestamp, body) == timestamp \o <<".">> \o body

\* what a client puts in X-ML-Signature for (secret, timestamp, body)
SignatureHeader(secret, timestamp, body) ==
    Sha256Prefix \o Hexdigest(secret, SignedMessage(timestamp, body))

\* the replay check without abs(): a timestamp from the future always passes
WithinSkew_OneSided(ts, skew_seconds) == now - ts <= skew_seconds

\* abs(now - ts) > skew_seconds, the replay check, negated
WithinSkew(ts, skew_seconds) == Abs(now - ts) <= skew_seconds

\* hmac.compare_digest(provided, expected)
CompareDigest(provided, expected) == provided = expected

\* the try block of verify_hmac_signature: the value it returns ("True",
\* "False") or the exception it raises
TryVerify(secret, body, timestamp, signature_header, skew_seconds) ==
    LET p == ParseTimestamp(timestamp)
    IN  IF ~p.ok THEN "ValueError"
        ELSE IF ~WithinSkew(p.ts, skew_seconds) THEN "False"
        ELSE IF ~StartsWith(signature_header, Sha256Prefix) THEN "False"
        ELSE IF CompareDigest(AfterFirstEq(signature_header),
                              Hexdigest(secret, SignedMessage(timestamp, body)))
        THEN "True" ELSE "False"

Returned == {"True", "False"}

\* a verifier without its except clause: the exception leaves the function
ExceptException_Reraise(outcome) == outcome

\* except Exception: return False
ExceptException(outcome) == IF outcome \in Returned THEN outcome ELSE "False"

verify_hmac_signature(secret, body, timestamp, signature_header, skew_seconds) ==
    ExceptException(TryVerify(secret, body, timestamp, signature_header, skew_seconds)) = "True"

\* an exception leaves verify_hmac_signature
verify_hmac_signature_raises(secret, body, timestamp, signature_header, skew_seconds) ==
    ExceptException(TryVerify(secret, body, timestamp, signature_header, skew_seconds))
        \notin Returned

(***************************************************************************)
(* JSON, as json.loads and json.dumps(obj, sort_keys=True,                 *)
(* separators=(',', ':')) treat the bytes of the model: braces, quotes,    *)
(* colon, comma, space, tab, letters and digits.  A parsed value is        *)
(* [t |-> "num" | "str" | "obj", v |-> ...]; an object is a function from  *)
(* its keys to values (dict(pairs): the last of two equal keys wins).      *)
(***************************************************************************)
Quote == "\""

\* json.decoder.WHITESPACE, the members of it the model has
JsonWs == {" ", "\t"}

\* characters in code-point order (sort_keys sorts str keys by code point)
CodePointOrder ==
    <<"\t", " ", "\"", ",", ".", "0", "1", "2", "3", "4", "5", "6", "7", "8", "9",
      ":", "=", "a", "b", "c", "{", "}">>

CodeOf(c) == CHOOSE i \in 1..Len(CodePointOrder) : CodePointOrder[i] = c

RECURSIVE LexLess(_, _)
\* a < b for Python str
LexLess(a, b) ==
    IF Len(b) = 0 THEN FALSE
    ELSE IF Len(a) = 0 THEN TRUE
    ELSE IF a[1] # b[1] THEN CodeOf(a[1]) < CodeOf(b[1])
    ELSE LexLess(Tail(a), Tail(b))

RECURSIVE SortedKeys_Descending(_)
\* sort_keys with the order reversed
SortedKeys_Descending(S) ==
    IF S = {} THEN <<>>
    ELSE LET m == CHOOSE x \in S : \A y \in S \ {x} : LexLess(y, x)
         IN  <<m>> \o SortedKeys_Descending(S \ {m})

RECURSIVE SortedKeys(_)
\* sorted(keys)
SortedKeys(S) ==
    IF S = {} THEN <<>>
    ELSE LET m == CHOOSE x \in S : \A y \in S \ {x} : LexLess(x, y)
         IN  <<m>> \o SortedKeys(S \ {m})

RECURSIVE SkipWs(_, _)
\* WHITESPACE.match(s, i).end()
SkipWs(s, i) == IF i <= Len(s) /\ s[i] \in JsonWs THEN SkipWs(s, i + 1) ELSE i

ScanFail == [ok |-> FALSE, val |-> [t |-> "err"], nxt |-> 0]

\* py_scanstring with strict=True, s[i] being the opening quote: the string
\* ends at the next quote; a control character before it is an error
ScanString(s, i) ==
    LET stops == {j \in (i + 1)..Len(s) : s[j] \in {Quote, "\t"}}
    IN  IF stops = {} THEN ScanFail
        ELSE LET j == CHOOSE k \in stops : \A m \in stops : k <= m
             IN  IF s[j] # Quote THEN ScanFail
                 ELSE [ok |-> TRUE,
                       val |-> [t |-> "str", v |-> SubSeq(s, i + 1, j - 1)],
                       nxt |-> j + 1]

\* NUMBER_RE at i, s[i] a digit: 0, or a maximal run of digits
ScanNumber(s, i) ==
    LET ends == {j \in i..Len(s) : \A k \in i..j : s[k] \in Digits}
        e == IF s[i] = "0" THEN i ELSE CHOOSE j \in ends : \A k \in ends : k <= j
    IN  [ok |-> TRUE, val |-> [t |-> "num", v |-> ParseInt(SubSeq(s, i, e))], nxt |-> e + 1]

RECURSIVE ScanValue(_, _)
RECURSIVE ScanMembers(_, _, _)

\* JSONObject's loop, s[i] being the opening quote of a key; acc the pairs so far
ScanMembers(s, i, acc) ==
    LET key == ScanString(s, i)
        k1  == SkipWs(s, key.nxt)
        k2  == SkipWs(s, k1 + 1)
        v   == ScanValue(s, k2)
        d   == [k \in (DOMAIN acc) \cup {key.val.v} |->
                    IF k = key.val.v THEN v.val ELSE acc[k]]
        k3  == SkipWs(s, v.nxt)
        k4  == SkipWs(s, k3 + 1)
    IN  IF ~key.ok THEN ScanFail
        ELSE IF k1 > Len(s) \/ s[k1] # ":" THEN ScanFail
        ELSE IF ~v.ok THEN ScanFail
        ELSE IF k3 > Len(s) THEN ScanFail
        ELSE IF s[k3] = "}" THEN [ok |-> TRUE, val |-> [t |-> "obj", v |-> d], nxt |-> k3 + 1]
        ELSE IF s[k3] # "," THEN ScanFail
        ELSE IF k4 > Len(s) \/ s[k4] # Quote THEN ScanFail
        ELSE ScanMembers(s, k4, d)

\* scan_once
ScanValue(s, i) ==
    IF i > Len(s) THEN ScanFail
    ELSE IF s[i] = Quote THEN ScanString(s, i)
    ELSE IF s[i] = "{" THEN
        LET j == SkipWs(s, i + 1)
        IN  IF j > Len(s) THEN ScanFail
            ELSE IF s[j] = "}" THEN [ok |-> TRUE, val |-> [t |-> "obj", v |-> <<>>], nxt |-> j + 1]
            ELSE IF s[j] # Quote THEN ScanFail
            ELSE ScanMembers(s, j, <<>>)
    ELSE IF s[i] \in Digits THEN ScanNumber(s, i)
    ELSE ScanFail

\* json.loads(body.decode('utf-8')): [ok, val]; ok = FALSE stands for JSONDecodeError
json_loads(s) ==
    LET v == ScanValue(s, SkipWs(s, 1))
    IN  IF v.ok /\ SkipWs(s, v.nxt) = Len(s) + 1
        THEN [ok |-> TRUE, val |-> v.val]
        ELSE [ok |-> FALSE, val |-> [t |-> "err"]]

RECURSIVE DumpValue(_)
RECURSIVE DumpMembers(_, _)

DumpMembers(d, keys) ==
    IF Len(keys) = 0 THEN <<>>
    ELSE <<Quote>> \o Head(keys) \o <<Quote, ":">> \o DumpValue(d[Head(keys)])
         \o (IF Len(keys) > 1 THEN <<",">> ELSE <<>>)
         \o DumpMembers(d, Tail(keys))

\* json.dumps(obj, sort_keys=True, separators=(',', ':'))
DumpValue(val) ==
    IF val.t = "num" THEN ToDigits(val.v)
    ELSE IF val.t = "str" THEN <<Quote>> \o val.v \o <<Quote>>
    ELSE <<"{">> \o DumpMembers(val.v, SortedKeys(DOMAIN val.v)) \o <<"}">>

\* an exception leaves verify_hmac_signature_flexible: its first call of
\* verify_hmac_signature is outside its own try block, the rest inside
verify_hmac_signature_flexible_raises(secret, body, timestamp, signature_header, skew_seconds) ==
    verify_hmac_signature_raises(secret, body, timestamp, signature_header, skew_seconds)

\* a fallback that compares the digest of the canonical body and nothing else
verify_hmac_signature_flexible_BareFallback(secret, body, timestamp, signature_header, skew_seconds) ==
    IF verify_hmac_signature(secret, body, timestamp, signature_header, skew_seconds)
    THEN TRUE
    ELSE LET obj == json_loads(body)
         IN  IF ~obj.ok THEN FALSE
             ELSE CompareDigest(AfterFirstEq(signature_header),
                                Hexdigest(secret, SignedMessage(timestamp, DumpValue(obj.val))))

verify_hmac_signature_flexible(secret, body, timestamp, signature_header, skew_seconds) ==
    IF verify_hmac_signature(secret, body, timestamp, signature_header, skew_seconds)
    THEN TRUE
    ELSE LET obj == json_loads(body)
         IN  IF ~obj.ok THEN FALSE
             ELSE verify_hmac_signature(secret, DumpValue(obj.val), timestamp,
                                        signature_header, skew_seconds)

(***************************************************************************)
(* Request bodies a client sends: a JSON object with members from KeyNames *)
(* and values 1..MaxVal, written with one of the client's formattings, or  *)
(* no body at all (a GET).                                                 *)
(***************************************************************************)
KeyList == << <<"a">>, <<"b">> >>

KeyNames == {KeyList[i] : i \in 1..Len(KeyList)}

JsonObjs == UNION {[K -> 1..MaxVal] : K \in SUBSET KeyNames}

Reverse(q) == [i \in 1..Len(q) |-> q[Len(q) + 1 - i]]

\* desc: members written in descending key order; item, key: the separators
Styles ==
    { [desc |-> FALSE, item |-> <<",">>,      key |-> <<":">>],         \* separators=(',', ':'), sorted
      [desc |-> FALSE, item |-> <<",", " ">>, key |-> <<":", " ">>],    \* json.dumps default
      [desc |-> TRUE,  item |-> <<",">>,      key |-> <<":">>],         \* insertion order, not sorted
      [desc |-> FALSE, item |-> <<",">>,      key |-> <<":", "\t">>] }

CanonicalStyle == [desc |-> FALSE, item |-> <<",">>, key |-> <<":">>]

RECURSIVE RenderMembers(_, _, _)
RenderMembers(obj, keys, style) ==
    IF Len(keys) = 0 THEN <<>>
    ELSE <<Quote>> \o Head(keys) \o <<Quote>> \o style.key \o ToDigits(obj[Head(keys)])
         \o (IF Len(keys) > 1 THEN style.item ELSE <<>>)
         \o RenderMembers(obj, Tail(keys), style)

\* the client's json.dumps(obj, ...) in the given formatting
Render(obj, style) ==
    LET InObj(k) == k \in DOMAIN obj
        asc == SelectSeq(KeyList, InObj)
    IN  <<"{">> \o RenderMembers(obj, IF style.desc THEN Reverse(asc) ELSE asc, style) \o <<"}">>

\* bytes a single-byte change of a body may put in
BodyChars == {"{", "}", ":", ",", " ", "\t", Quote, "a", "b"} \cup {DigitChars[v + 1] : v \in 1..MaxVal}

\* bytes a single-byte change of a timestamp or of a digest may put in
TimestampChars == Digits \cup {"x"}

DigestChars == {"0", "1", "a", "b"}

Secrets == {"k1", "k2"}

(***************************************************************************)
(* SpecHmac: the verifier applied to inputs drawn from bounded sets, and   *)
(* to the same inputs with one byte changed.                               *)
(***************************************************************************)
\* instants around the ends of the window
Instants(t, skew) == {t - skew - 1, t - skew, t, t + skew, t + skew + 1}

\* X-ML-Timestamp values: epochs, ISO-8601 instants, the default "0" of an
\* absent header, and a string that is neither
TimestampInputs(t, skew) ==
    {[inst |-> n, text |-> ToDigits(n)] : n \in Instants(t, skew)}
    \cup {[inst |-> n, text |-> IsoFormat(n)] : n \in {t - skew, t + skew + 1}}
    \cup {[inst |-> 0, text |-> <<"0">>], [inst |-> -1, text |-> <<"1", "x">>]}

BodyInputs ==
    {[is_json |-> TRUE, obj |-> o, text |-> Render(o, st)] : o \in JsonObjs, st \in Styles}
    \cup {[is_json |-> FALSE, obj |-> <<>>, text |-> <<>>]}

\* what the client signed: the bytes it sent, the canonical re-serialization
\* of the value it sent, or an encoding of a different value
SignedInputs(b) ==
    {[how |-> "raw", text |-> b.text]}
    \cup (IF ~b.is_json THEN {}
          ELSE {[how |-> "canonical", text |-> Render(b.obj, CanonicalStyle)]}
               \cup {[how |-> "other", text |-> Render(o, st)] :
                        o \in JsonObjs \ {b.obj},
                        st \in {CanonicalStyle, [desc |-> FALSE, item |-> <<",", " ">>, key |-> <<":", " ">>]}})

HmOff == [phase |-> "off"]

HmInput(sk, b, ts, sg, k) ==
    [phase |-> "input", secret |-> "k1", skew |-> sk,
     is_json |-> b.is_json, obj |-> b.obj, body |-> b.text,
     inst |-> ts.inst, timestamp |-> ts.text,
     how |-> sg.how, signed_body |-> sg.text, signer |-> k,
     signature |-> SignatureHeader(k, ts.text, sg.text),
     strict |-> FALSE, flexible |-> FALSE, field |-> None, before |-> FALSE]

\* a client holding the wrong secret signs the bytes it sends
SignerInputs(sg) == IF sg.how = "raw" THEN Secrets ELSE {"k1"}

HmInputsFor(t, sk, b) ==
    UNION { {HmInput(sk, b, ts, sg, k) : ts \in TimestampInputs(t, sk), k \in SignerInputs(sg)} :
              sg \in SignedInputs(b) }

HmInputs(t) == UNION {HmInputsFor(t, sk, b) : sk \in SkewValues \ {60}, b \in BodyInputs}

\* both verifiers applied to the inputs at hand
HmApply(h, phase) ==
    [h EXCEPT !.phase = phase,
       !.strict = verify_hmac_signature(h.secret, h.body, h.timestamp, h.signature, h.skew),
       !.flexible = verify_hmac_signature_flexible(h.secret, h.body, h.timestamp, h.signature, h.skew)]

HmVerify ==
    /\ hm.phase = "input"
    /\ hm' = HmApply(hm, "verified")
    /\ UNCHANGED <<settings, api_keys, now, conn, kv, gc, db>>

ReplaceAt(s, i, c) == [s EXCEPT ![i] = c]

\* an accepted request replayed with one byte of its body changed
HmTamperBody ==
    /\ hm.phase = "verified" /\ hm.flexible
    /\ \E i \in 1..Len(hm.body), c \in BodyChars :
          /\ c # hm.body[i]
          /\ hm' = HmApply([hm EXCEPT !.body = ReplaceAt(hm.body, i, c),
                                      !.field = "body", !.before = hm.flexible], "tampered")
    /\ UNCHANGED <<settings, api_keys, now, conn, kv, gc, db>>

\* ... with one byte of its timestamp changed
HmTamperTimestamp ==
    /\ hm.phase = "verified" /\ hm.flexible /\ IsDigit(hm.timestamp)
    /\ \E i \in 1..Len(hm.timestamp), c \in TimestampChars :
          /\ c # hm.timestamp[i]
          /\ hm' = HmApply([hm EXCEPT !.timestamp = ReplaceAt(hm.timestamp, i, c),
                                      !.field = "timestamp", !.before = hm.flexible], "tampered")
    /\ UNCHANGED <<settings, api_keys, now, conn, kv, gc, db>>

\* ... with one byte of the hex digest of its signature changed
HmTamperSignature ==
    /\ hm.phase = "verified" /\ hm.flexible
    /\ \E i \in (Len(Sha256Prefix) + 1)..Len(hm.signature), c \in DigestChars :
          /\ c # hm.signature[i]
          /\ hm' = HmApply([hm EXCEPT !.signature = ReplaceAt(hm.signature, i, c),
                                      !.field = "signature", !.before = hm.flexible], "tampered")
    /\ UNCHANGED <<settings, api_keys, now, conn, kv, gc, db>>

\* the request sent with another algorithm prefix before the same digest
HmWrongPrefix ==
    /\ hm.phase = "input"
    /\ hm' = HmApply([hm EXCEPT !.signature = <<"m", "d", "5", "=">> \o AfterFirstEq(hm.signature),
                                !.field = "prefix"], "reprefixed")
    /\ UNCHANGED <<settings, api_keys, now, conn, kv, gc, db>>

HmInit ==
    /\ now = Now0
    /\ hm \in HmInputs(Now0)
    /\ settings = None /\ api_keys = <<>> /\ conn = [phase |-> "idle"]
    /\ kv = [phase |-> "off"]
    /\ gc = [phase |-> "off"]
    /\ db = [phase |-> "off"]

HmNext == HmVerify \/ HmWrongPrefix \/ HmTamperBody \/ HmTamperTimestamp \/ HmTamperSignature

SpecHmac == HmInit /\ [][HmNext]_vars

(***************************************************************************)
(* API keys.  PBKDF2-HMAC-SHA256 is an ideal key-derivation function: for  *)
(* one salt, different keys never give the same derived key.  A stored     *)
(* hash is the salt's hex followed by the derived key's hex.               *)
(***************************************************************************)
\* stored_hash[:64]: the hex characters of the 32-byte salt
SaltHexLen == 64

\* the hex characters of the 32-byte derived key
DigestHexLen == 64

HexDigitSeq ==
    <<"0", "1", "2", "3", "4", "5", "6", "7", "8", "9", "a", "b", "c", "d", "e", "f">>

HexChars == {HexDigitSeq[i] : i \in 1..Len(HexDigitSeq)}

\* bytes.fromhex reads both cases and skips ASCII whitespace between bytes
UpperHexChars == {"A", "B", "C", "D", "E", "F"}

HexWs == {" ", "\t", "\n"}

LowerHex(c) ==
    CASE c = "A" -> "a" [] c = "B" -> "b" [] c = "C" -> "c"
      [] c = "D" -> "d" [] c = "E" -> "e" [] c = "F" -> "f" [] OTHER -> c

HexValues ==
    [c \in HexChars \cup UpperHexChars |->
        (CHOOSE i \in 1..Len(HexDigitSeq) : HexDigitSeq[i] = LowerHex(c)) - 1]

HexVal(c) == HexValues[c]

\* bytes.fromhex(s): ok = FALSE is its ValueError; hex is s.hex() of the
\* bytes it returns (lower case, no whitespace)
FromHex(s) ==
    LET d == SelectSeq(s, LAMBDA c : c \notin HexWs)
        DigitsBefore(i) == Len(SelectSeq(SubSeq(s, 1, i), LAMBDA c : c \notin HexWs))
    IN  [ok  |-> /\ Len(d) % 2 = 0
                 /\ \A i \in 1..Len(d) : d[i] \in HexChars \cup UpperHexChars
                 /\ \A i \in 1..Len(s) : s[i] \in HexWs => DigitsBefore(i) % 2 = 0,
         hex |-> [i \in 1..Len(d) |-> LowerHex(d[i])]]

\* secrets.token_bytes(32).hex(): the salts the model draws
SaltHex(c) == [i \in 1..SaltHexLen |-> c]

\* the raw keys of the model
RawKeys == <<"key-1", "key-2", "key-unknown">>

KeyCode(api_key) == CHOOSE i \in 1..Len(RawKeys) : RawKeys[i] = api_key

\* hashlib.pbkdf2_hmac('sha256', api_key, salt, 100000).hex(): 64 hex
\* characters; for one salt, different keys give different derived keys
Pbkdf2Hex(api_key, salt_hex) ==
    LET SaltAt(i) == IF salt_hex = <<>> THEN "0"
                     ELSE salt_hex[((i - 1) % Len(salt_hex)) + 1]
    IN  [i \in 1..DigestHexLen |->
            HexDigitSeq[((HexVal(SaltAt(i)) + KeyCode(api_key)) % Len(HexDigitSeq)) + 1]]

\* a hash stored under one salt for every key
hash_api_key_FixedSalt(api_key, salt_hex) ==
    SaltHex("0") \o Pbkdf2Hex(api_key, SaltHex("0"))

\* salt.hex() + key.hex(), for the salt that token_bytes drew
hash_api_key(api_key, salt_hex) == salt_hex \o Pbkdf2Hex(api_key, salt_hex)

\* the try block of verify_api_key: the value it returns or the exception
\* it raises
TryVerifyKey(api_key, stored_hash) ==
    LET n          == IF Len(stored_hash) < SaltHexLen THEN Len(stored_hash) ELSE SaltHexLen
        salt       == FromHex(SubSeq(stored_hash, 1, n))
        stored_key == FromHex(SubSeq(stored_hash, n + 1, Len(stored_hash)))
    IN  IF ~salt.ok \/ ~stored_key.ok THEN "ValueError"
        ELSE IF Pbkdf2Hex(api_key, salt.hex) = stored_key.hex THEN "True"
        ELSE "False"

\* a verifier that reads the stored bytes but lets every exception through
ExceptValueTypeError_Reraise(outcome) == outcome

\* except (ValueError, TypeError): return False
ExceptValueTypeError(outcome) ==
    IF outcome \in {"ValueError", "TypeError"} THEN "False" ELSE outcome

verify_api_key(api_key, stored_hash) ==
    ExceptValueTypeError(TryVerifyKey(api_key, stored_hash)) = "True"

\* an exception leaves verify_api_key
verify_api_key_raises(api_key, stored_hash) ==
    ExceptValueTypeError(TryVerifyKey(api_key, stored_hash)) \notin Returned

\* raw keys generate_api_key() hands out, in the order it hands them out,
\* with the user each is issued to and the salt hash_api_key draws for it
KeyPool ==
    << [raw |-> "key-1", user |-> "bob@example.com",   salt |-> SaltHex("a")],
       [raw |-> "key-2", user |-> "alice@example.com", salt |-> SaltHex("b")] >>

\* verify_api_key on the tokens and the stored hashes of the model
PoolHashes == {hash_api_key(KeyPool[i].raw, KeyPool[i].salt) : i \in 1..Len(KeyPool)}

KeyVerifies ==
    [api_key \in {RawKeys[i] : i \in 1..Len(RawKeys)}, stored_hash \in PoolHashes |->
        verify_api_key(api_key, stored_hash)]

\* a lookup that takes the first active row without verifying the token
FirstMatch_FirstActive(table, token) ==
    LET hits == {i \in 1..Len(table) : table[i].is_active}
    IN  IF hits = {} THEN 0 ELSE CHOOSE i \in hits : \A j \in hits : i <= j

\* a lookup that forgets the is_active filter of get_all_active_api_keys
FirstMatch_AnyRow(table, token) ==
    LET hits == {i \in 1..Len(table) : KeyVerifies[token, table[i].key_hash]}
    IN  IF hits = {} THEN 0 ELSE CHOOSE i \in hits : \A j \in hits : i <= j

\* the loop of get_user_from_api_key over crud.get_all_active_api_keys: index
\* in `table` of the first active row whose hash verifies the token, 0 when
\* there is none
FirstMatch(table, token) ==
    LET hits == {i \in 1..Len(table) :
                    table[i].is_active /\ KeyVerifies[token, table[i].key_hash]}
    IN  IF hits = {} THEN 0 ELSE CHOOSE i \in hits : \A j \in hits : i <= j

\* get_user_from_api_key: the email of the key's user, None without a match
get_user_from_api_key(table, bearer) ==
    IF bearer = None THEN None
    ELSE IF FirstMatch(table, bearer) = 0 THEN None
    ELSE table[FirstMatch(table, bearer)].user

(***************************************************************************)
(* SpecKey: hash_api_key called twice on one raw key, and verify_api_key   *)
(* applied to what was stored and to corrupted copies of it.               *)
(***************************************************************************)
KvOff == [phase |-> "off"]

\* the salts secrets.token_bytes draws; no two calls draw the same one
SaltInputs == {SaltHex("a"), SaltHex("3"), SaltHex("f")}

KvInput(k, s1, s2) ==
    [phase |-> "input", key |-> RawKeys[k], salt1 |-> s1, salt2 |-> s2,
     h1 |-> <<>>, h2 |-> <<>>, token |-> RawKeys[k], stored |-> <<>>,
     kind |-> "none", result |-> FALSE, raised |-> FALSE]

KvInputs ==
    UNION { {KvInput(k, s1, s2) : k \in 1..Len(RawKeys), s2 \in SaltInputs \ {s1}} :
              s1 \in SaltInputs }

\* h1 = hash_api_key(x); h2 = hash_api_key(x)
KvHash ==
    /\ kv.phase = "input"
    /\ kv' = [kv EXCEPT !.phase = "hashed",
                        !.h1 = hash_api_key(kv.key, kv.salt1),
                        !.h2 = hash_api_key(kv.key, kv.salt2)]
    /\ UNCHANGED <<settings, api_keys, now, conn, hm, gc, db>>

KvApply(k, phase, kind, token, stored) ==
    [k EXCEPT !.phase = phase, !.kind = kind, !.token = token, !.stored = stored,
              !.result = verify_api_key(token, stored),
              !.raised = verify_api_key_raises(token, stored)]

\* verify_api_key(y, h1) for the key that was hashed and for another one
KvVerify ==
    /\ kv.phase = "hashed"
    /\ \E k \in 1..Len(RawKeys) :
          kv' = KvApply(kv, "verified", "intact", RawKeys[k], kv.h1)
    /\ UNCHANGED <<settings, api_keys, now, conn, hm, gc, db>>

InsertAt(s, i, c) == SubSeq(s, 1, i) \o <<c>> \o SubSeq(s, i + 1, Len(s))

UpperHex(c) ==
    CASE c = "a" -> "A" [] c = "b" -> "B" [] c = "c" -> "C"
      [] c = "d" -> "D" [] c = "e" -> "E" [] c = "f" -> "F" [] OTHER -> c

\* the stored value cut short, with a character replaced, with a character
\* inserted, or in upper case
Corruptions(h) ==
    {[kind |-> "truncated", stored |-> SubSeq(h, 1, n)] : n \in 0..(Len(h) - 1)}
    \cup {[kind |-> "replaced", stored |-> ReplaceAt(h, i, c)] :
             i \in 1..Len(h), c \in {"z", " "}}
    \cup {[kind |-> "inserted", stored |-> InsertAt(h, i, c)] :
             i \in 0..Len(h), c \in {"0", "z", " ", "\n"}}
    \cup {[kind |-> "upper", stored |-> [i \in 1..Len(h) |-> UpperHex(h[i])]]}

\* verify_api_key(x, s) for a corrupted copy s of h1
KvCorrupt ==
    /\ kv.phase = "hashed"
    /\ \E c \in Corruptions(kv.h1) :
          kv' = KvApply(kv, "corrupted", c.kind, kv.key, c.stored)
    /\ UNCHANGED <<settings, api_keys, now, conn, hm, gc, db>>

KvInit ==
    /\ kv \in KvInputs
    /\ settings = None /\ api_keys = <<>> /\ now = Now0
    /\ conn = [phase |-> "idle"] /\ hm = [phase |-> "off"]
    /\ gc = [phase |-> "off"]
    /\ db = [phase |-> "off"]

KvNext == KvHash \/ KvVerify \/ KvCorrupt

SpecKey == KvInit /\ [][KvNext]_vars

(***************************************************************************)
(* The header-mode middleware.                                             *)
(***************************************************************************)
MockUserEmail == "test@example.com"

ProxySecret == "shh"

\* header_value.strip().lower() for the header values of the model
StripLower(v) == IF v = " Alice@Example.COM " THEN "alice@example.com" ELSE v

\* re.match(email_pattern, email)
MatchesEmailPattern(e) == e \in {"alice@example.com", "bob@example.com", "test@example.com"}

\* a validation that lets every non-empty header value through
get_user_from_header_AcceptAll(header_value) ==
    IF header_value = None \/ header_value = "" THEN None ELSE StripLower(header_value)

\* a validation that answers the mock identity where it should answer None
get_user_from_header_MockFallback(header_value) ==
    IF header_value = None \/ header_value = "" THEN MockUserEmail
    ELSE IF ~MatchesEmailPattern(StripLower(header_value)) THEN MockUserEmail
    ELSE StripLower(header_value)

get_user_from_header(header_value) ==
    IF header_value = None \/ header_value = "" THEN None
    ELSE IF ~MatchesEmailPattern(StripLower(header_value)) THEN None
    ELSE StripLower(header_value)

\* a middleware without exempt paths
ExemptPath_None(path) == FALSE

ExemptPath(path) ==
    path \in {<<"api", "health">>, <<"openapi.json">>} \/ Head(path) \in {"docs", "redoc"}

DependencyAuthPath(path) == Head(path) \in {"api-key", "api-ml"}

DebugMode == settings.DEBUG \/ settings.SKIP_HEADER_CHECK

LogEvent(level, by, msg) == [level |-> level, by |-> by, msg |-> msg]

\* a proxy check that accepts whatever value the header carries
ProxySecretMismatch_AnyPresent(req) == req.proxy_secret = None

\* a proxy check that lets a request without the header pass
ProxySecretMismatch_AbsentOk(req) ==
    req.proxy_secret # None /\ req.proxy_secret # settings.PROXY_SHARED_SECRET

\* proxy_secret != settings.PROXY_SHARED_SECRET, headers.get giving None for
\* an absent header
ProxySecretMismatch(req) == req.proxy_secret # settings.PROXY_SHARED_SECRET

\* auth_middleware: forward = call_next is reached; otherwise status is the
\* JSONResponse it returns
auth_middleware(req) ==
    IF ExemptPath(req.path) \/ DependencyAuthPath(req.path)
    THEN [forward |-> TRUE, status |-> 200, user_email |-> None,
          is_authenticated |-> FALSE, log |-> <<>>]
    ELSE IF DebugMode
    THEN [forward |-> TRUE, status |-> 200,
          user_email |-> IF get_user_from_header(req.user_header) # None
                         THEN get_user_from_header(req.user_header)
                         ELSE settings.MOCK_USER_EMAIL,
          is_authenticated |-> TRUE, log |-> <<>>]
    ELSE IF settings.PROXY_SHARED_SECRET # None /\ ProxySecretMismatch(req)
    THEN [forward |-> FALSE, status |-> 401, user_email |-> None, is_authenticated |-> FALSE,
          log |-> <<LogEvent("warning", "auth_middleware", "Invalid or missing proxy secret")>>]
    ELSE IF settings.PROXY_SHARED_SECRET # None /\ get_user_from_header(req.user_header) = None
    THEN [forward |-> FALSE, status |-> 401, user_email |-> None, is_authenticated |-> FALSE,
          log |-> <<LogEvent("warning", "auth_middleware", "Missing or invalid user header")>>]
    ELSE IF get_user_from_header(req.user_header) = None
    THEN [forward |-> FALSE, status |-> 500, user_email |-> None, is_authenticated |-> FALSE,
          log |-> <<LogEvent("error", "auth_middleware",
                             "User header missing/invalid and no PROXY_SHARED_SECRET configured")>>]
    ELSE [forward |-> TRUE, status |-> 200,
          user_email |-> get_user_from_header(req.user_header),
          is_authenticated |-> TRUE, log |-> <<>>]

(***************************************************************************)
(* The dependencies of the three routers and of the route handlers.  Each  *)
(* returns ok (the dependency returned) or the status of the HTTPException *)
(* it raised, and the log events it emitted.                               *)
(***************************************************************************)
\* request.headers.get(name, default); a header is <<>> when absent and
\* <<value>> when sent
HeaderOr(h, default) == IF h = <<>> THEN default ELSE h[1]

\* get_current_user: the API-key user if there is one, else the user the
\* middleware put in request.state, else 401
get_current_user(api_user, state_user_email) ==
    IF api_user # None THEN [ok |-> TRUE, status |-> 200, user |-> api_user]
    ELSE IF state_user_email # None THEN [ok |-> TRUE, status |-> 200, user |-> state_user_email]
    ELSE [ok |-> FALSE, status |-> 401, user |-> None]

require_api_key(api_user) ==
    IF api_user = None THEN [ok |-> FALSE, status |-> 401, check |-> "none", log |-> <<>>]
    ELSE [ok |-> TRUE, status |-> 200, check |-> "none", log |-> <<>>]

\* a dual-auth dependency that asks for the API key only
require_hmac_auth_NoSignature(req, api_user) ==
    IF api_user = None
    THEN [ok |-> FALSE, status |-> 401, check |-> "none", log |-> <<>>]
    ELSE [ok |-> TRUE, status |-> 200, check |-> "passed", log |-> <<>>]

\* a dual-auth dependency that ignores ML_PIPELINE_REQUIRE_HMAC
require_hmac_auth_AlwaysVerify(req, api_user) ==
    IF api_user = None
    THEN [ok |-> FALSE, status |-> 401, check |-> "none", log |-> <<>>]
    ELSE IF settings.ML_CALLBACK_HMAC_SECRET = None
    THEN [ok |-> FALSE, status |-> 500, check |-> "misconfigured", log |-> <<>>]
    ELSE IF ~verify_hmac_signature_flexible(settings.ML_CALLBACK_HMAC_SECRET, req.body,
                                            HeaderOr(req.timestamp, <<"0">>),
                                            HeaderOr(req.signature, <<>>),
                                            settings.ML_HMAC_TIMESTAMP_SKEW_SECONDS)
    THEN [ok |-> FALSE, status |-> 401, check |-> "failed", log |-> <<>>]
    ELSE [ok |-> TRUE, status |-> 200, check |-> "passed", log |-> <<>>]

\* a dual-auth dependency that reports a missing secret as a bad signature
require_hmac_auth_NoSecretCheck(req, api_user) ==
    IF api_user = None
    THEN [ok |-> FALSE, status |-> 401, check |-> "none", log |-> <<>>]
    ELSE IF ~settings.ML_PIPELINE_REQUIRE_HMAC
    THEN [ok |-> TRUE, status |-> 200, check |-> "skipped", log |-> <<>>]
    ELSE IF settings.ML_CALLBACK_HMAC_SECRET = None
    THEN [ok |-> FALSE, status |-> 401, check |-> "failed", log |-> <<>>]
    ELSE IF ~verify_hmac_signature_flexible(settings.ML_CALLBACK_HMAC_SECRET, req.body,
                                            HeaderOr(req.timestamp, <<"0">>),
                                            HeaderOr(req.signature, <<>>),
                                            settings.ML_HMAC_TIMESTAMP_SKEW_SECONDS)
    THEN [ok |-> FALSE, status |-> 401, check |-> "failed", log |-> <<>>]
    ELSE [ok |-> TRUE, status |-> 200, check |-> "passed", log |-> <<>>]

\* require_hmac_auth, with its dependency get_current_user_from_api_key_only
require_hmac_auth(req, api_user) ==
    IF api_user = None
    THEN [ok |-> FALSE, status |-> 401, check |-> "none", log |-> <<>>]
    ELSE IF ~settings.ML_PIPELINE_REQUIRE_HMAC
    THEN [ok |-> TRUE, status |-> 200, check |-> "skipped", log |-> <<>>]
    ELSE IF settings.ML_CALLBACK_HMAC_SECRET = None
    THEN [ok |-> FALSE, status |-> 500, check |-> "misconfigured",
          log |-> <<LogEvent("error", "require_hmac_auth",
                             "HMAC authentication required but ML_CALLBACK_HMAC_SECRET not configured")>>]
    ELSE IF verify_hmac_signature_flexible_raises(settings.ML_CALLBACK_HMAC_SECRET, req.body,
                                                  HeaderOr(req.timestamp, <<"0">>),
                                                  HeaderOr(req.signature, <<>>),
                                                  settings.ML_HMAC_TIMESTAMP_SKEW_SECONDS)
    THEN [ok |-> FALSE, status |-> 500, check |-> "raised", log |-> <<>>]
    ELSE IF ~verify_hmac_signature_flexible(settings.ML_CALLBACK_HMAC_SECRET, req.body,
                                            HeaderOr(req.timestamp, <<"0">>),
                                            HeaderOr(req.signature, <<>>),
                                            settings.ML_HMAC_TIMESTAMP_SKEW_SECONDS)
    THEN [ok |-> FALSE, status |-> 401, check |-> "failed",
          log |-> <<LogEvent("warning", "require_hmac_auth", "HMAC signature verification failed")>>]
    ELSE [ok |-> TRUE, status |-> 200, check |-> "passed", log |-> <<>>]

\* _verify_pipeline_hmac of the callback handlers (bulk annotations, artifact
\* presign, finalize): verify_hmac_signature_flexible without skew_seconds
verify_pipeline_hmac(req) ==
    IF ~settings.ML_PIPELINE_REQUIRE_HMAC
    THEN [ok |-> TRUE, status |-> 200, check |-> "skipped", log |-> <<>>]
    ELSE IF settings.ML_CALLBACK_HMAC_SECRET = None
    THEN [ok |-> FALSE, status |-> 500, check |-> "misconfigured",
          log |-> <<LogEvent("warning", "_verify_pipeline_hmac", "ML_HMAC_SECRET_MISSING")>>]
    ELSE IF verify_hmac_signature_flexible_raises(settings.ML_CALLBACK_HMAC_SECRET, req.body,
                                                  HeaderOr(req.timestamp, <<"0">>),
                                                  HeaderOr(req.signature, <<>>),
                                                  DefaultSkewSeconds)
    THEN [ok |-> FALSE, status |-> 500, check |-> "raised", log |-> <<>>]
    ELSE IF ~verify_hmac_signature_flexible(settings.ML_CALLBACK_HMAC_SECRET, req.body,
                                            HeaderOr(req.timestamp, <<"0">>),
                                            HeaderOr(req.signature, <<>>),
                                            DefaultSkewSeconds)
    THEN [ok |-> FALSE, status |-> 401, check |-> "failed", log |-> <<>>]
    ELSE [ok |-> TRUE, status |-> 200, check |-> "passed", log |-> <<>>]

NoCheck == [ok |-> TRUE, status |-> 200, check |-> "none", log |-> <<>>]

\* the dependency of the router the path is under (create_app)
RouterDependency(req, api_user) ==
    IF Head(req.path) = "api-key" THEN require_api_key(api_user)
    ELSE IF Head(req.path) = "api-ml" THEN require_hmac_auth(req, api_user)
    ELSE NoCheck

\* the pipeline callbacks are the routes whose handler calls _verify_pipeline_hmac
IsCallback(path) == path[Len(path)] = "finalize"

\* The response to a request: middleware, router dependency, the handler's
\* get_current_user, the handler's own HMAC check; status 200 and reached
\* stand for the request getting to domain logic as `user`.
Serve(req) ==
    LET mw       == auth_middleware(req)
        api_user == get_user_from_api_key(api_keys, req.bearer)
        dep      == RouterDependency(req, api_user)
        cur      == get_current_user(api_user, mw.user_email)
        hnd      == IF IsCallback(req.path) THEN verify_pipeline_hmac(req) ELSE NoCheck
        base     == [status |-> 200, reached |-> FALSE, user |-> None,
                     state_user_email |-> mw.user_email, api_user |-> None,
                     dep_check |-> "none", handler_check |-> "none", log |-> mw.log]
    IN  IF ~mw.forward THEN [base EXCEPT !.status = mw.status]
        ELSE IF ExemptPath(req.path) THEN [base EXCEPT !.reached = TRUE]
        ELSE IF ~dep.ok
        THEN [base EXCEPT !.status = dep.status, !.api_user = api_user,
                          !.dep_check = dep.check, !.log = mw.log \o dep.log]
        ELSE IF ~cur.ok
        THEN [base EXCEPT !.status = cur.status, !.api_user = api_user,
                          !.dep_check = dep.check, !.log = mw.log \o dep.log]
        ELSE IF ~hnd.ok
        THEN [base EXCEPT !.status = hnd.status, !.api_user = api_user,
                          !.dep_check = dep.check, !.handler_check = hnd.check,
                          !.log = mw.log \o dep.log \o hnd.log]
        ELSE [base EXCEPT !.reached = TRUE, !.user = cur.user, !.api_user = api_user,
                          !.dep_check = dep.check, !.handler_check = hnd.check,
                          !.log = mw.log \o dep.log \o hnd.log]

\* crud.update_api_key_last_used on the matched row, when get_user_from_api_key ran
TouchLastUsed(table, req) ==
    LET mw == auth_middleware(req)
        i  == IF req.bearer = None THEN 0 ELSE FirstMatch(table, req.bearer)
    IN  IF mw.forward /\ ~ExemptPath(req.path) /\ i # 0
        THEN [table EXCEPT ![i].last_used_at = <<now>>]
        ELSE table


(***************************************************************************)
(* The server: its configuration, the API-key table, and one connection    *)
(* that carries a request to its response.                                 *)
(***************************************************************************)
ConnIdle == [phase |-> "idle"]

Settings ==
    [DEBUG : BOOLEAN,
     SKIP_HEADER_CHECK : BOOLEAN,
     MOCK_USER_EMAIL : {MockUserEmail},
     PROXY_SHARED_SECRET : {None, ProxySecret},
     ML_CALLBACK_HMAC_SECRET : {None, "k1"},
     ML_PIPELINE_REQUIRE_HMAC : BOOLEAN,
     ML_HMAC_TIMESTAMP_SKEW_SECONDS : {DefaultSkewSeconds, 600}]

\* the headers of header mode a client sends
HeaderModeInputs ==
    [proxy_secret : {None, ProxySecret, "wrong"},
     user_header  : {None, "alice@example.com", "not-an-email"}]

\* ... and the two of them that matter where the middleware steps aside
HeaderModeEnds ==
    {[proxy_secret |-> None, user_header |-> None],
     [proxy_secret |-> ProxySecret, user_header |-> "alice@example.com"]}

BearerInputs == {None, "key-1", "key-2", "key-unknown"}

\* the body of a pipeline callback, as the pipeline client serialises it
CallbackBody == Render((<<"a">> :> 1), CanonicalStyle)

\* timestamp and signature headers: absent, or a timestamp `age` seconds old
\* with a signature made with `signer`
HmacHeaders(body, age, signer) ==
    [timestamp |-> <<ToDigits(now - age)>>,
     signature |-> IF signer = None THEN <<>>
                   ELSE <<SignatureHeader(signer, ToDigits(now - age), body)>>]

\* ... or a timestamp that is no instant, or a signature with another prefix
HmacHeaderInputs(body) ==
    {[timestamp |-> <<>>, signature |-> <<>>],
     HmacHeaders(body, 0, None),
     HmacHeaders(body, 0, "k1"),
     HmacHeaders(body, 400, "k1"),
     HmacHeaders(body, 700, "k1"),
     HmacHeaders(body, 0, "k2"),
     [timestamp |-> << <<"1", "x">> >>,
      signature |-> <<SignatureHeader("k1", <<"1", "x">>, body)>>],
     [timestamp |-> <<ToDigits(now)>>,
      signature |-> << <<"m", "d", "5", "=">>
                       \o Hexdigest("k1", SignedMessage(ToDigits(now), body)) >>]}

NoHmacHeaders == {[timestamp |-> <<>>, signature |-> <<>>]}

Request(path, body, hdr, bearer, sig) ==
    [path |-> path, body |-> body,
     proxy_secret |-> hdr.proxy_secret, user_header |-> hdr.user_header,
     bearer |-> bearer, timestamp |-> sig.timestamp, signature |-> sig.signature]

RequestsTo(path, body, Hdrs, Sigs) ==
    {Request(path, body, hdr, bearer, sig) :
        hdr \in Hdrs, bearer \in BearerInputs, sig \in Sigs}

Requests ==
    RequestsTo(<<"api", "health">>, <<>>, HeaderModeInputs, NoHmacHeaders)
    \cup RequestsTo(<<"openapi.json">>, <<>>, HeaderModeEnds, NoHmacHeaders)
    \cup RequestsTo(<<"docs">>, <<>>, HeaderModeEnds, NoHmacHeaders)
    \cup RequestsTo(<<"api", "projects">>, <<>>, HeaderModeInputs, NoHmacHeaders)
    \cup RequestsTo(<<"api", "analyses", "finalize">>, CallbackBody,
                    HeaderModeEnds, HmacHeaderInputs(CallbackBody))
    \cup RequestsTo(<<"api-key", "projects">>, <<>>, HeaderModeEnds, NoHmacHeaders)
    \cup RequestsTo(<<"api-key", "analyses", "finalize">>, CallbackBody,
                    HeaderModeEnds, HmacHeaderInputs(CallbackBody))
    \cup RequestsTo(<<"api-ml", "projects">>, <<>>, HeaderModeEnds, HmacHeaderInputs(<<>>))
    \cup RequestsTo(<<"api-ml", "analyses", "finalize">>, CallbackBody,
                    HeaderModeEnds, HmacHeaderInputs(CallbackBody))

\* POST /api/api-keys: generate_api_key, hash_api_key, crud.create_api_key
CreateApiKey ==
    /\ conn.phase = "idle"
    /\ Len(api_keys) < Len(KeyPool)
    /\ LET k == KeyPool[Len(api_keys) + 1]
       IN  api_keys' = Append(api_keys,
                              [id |-> Len(api_keys) + 1, user |-> k.user,
                               key_hash |-> hash_api_key(k.raw, k.salt),
                               is_active |-> TRUE, last_used_at |-> <<>>])
    /\ UNCHANGED <<settings, now, conn, hm, kv, gc, db>>

\* a revocation that deletes the row
DeactivateApiKey_Delete ==
    /\ conn.phase = "idle"
    /\ \E i \in 1..Len(api_keys) :
          /\ api_keys[i].is_active
          /\ api_keys' = SubSeq(api_keys, 1, i - 1) \o SubSeq(api_keys, i + 1, Len(api_keys))
    /\ UNCHANGED <<settings, now, conn, hm, kv, gc, db>>

\* DELETE /api/api-keys/{id}: crud.deactivate_api_key
DeactivateApiKey ==
    /\ conn.phase = "idle"
    /\ \E i \in 1..Len(api_keys) :
          /\ api_keys[i].is_active
          /\ api_keys' = [api_keys EXCEPT ![i].is_active = FALSE]
    /\ UNCHANGED <<settings, now, conn, hm, kv, gc, db>>

\* one request through the middleware stack, the router and the handler
HandleRequest ==
    /\ conn.phase = "idle"
    /\ \E req \in Requests :
          /\ conn' = [phase |-> "done", req |-> req, resp |-> Serve(req)]
          /\ api_keys' = TouchLastUsed(api_keys, req)
    /\ UNCHANGED <<settings, now, hm, kv, gc, db>>

\* the response is sent; the connection takes the next request
Respond ==
    /\ conn.phase = "done"
    /\ conn' = ConnIdle
    /\ UNCHANGED <<settings, api_keys, now, hm, kv, gc, db>>

Init ==
    /\ settings \in Settings
    /\ api_keys = <<>>
    /\ now = Now0
    /\ conn = ConnIdle
    /\ hm = HmOff
    /\ kv = [phase |-> "off"]
    /\ gc = [phase |-> "off"]
    /\ db = [phase |-> "off"]

Next == CreateApiKey \/ DeactivateApiKey \/ HandleRequest \/ Respond

Spec == Init /\ [][Next]_vars


(***************************************************************************)
(* Group membership: the core check (core/group_auth.py), the pluggable    *)
(* directory lookup behind it, and the cached wrapper with its cache       *)
(* management (core/group_auth_helper.py).                                 *)
(***************************************************************************)
\* _CACHE_TTL
CacheTTL == 300

\* str.lower() and str.strip() on the strings of the model
Lower(s) == IF s = " User1@Example.COM " THEN " user1@example.com " ELSE s

Strip(s) ==
    CASE s = " user1@example.com " -> "user1@example.com"
      [] s = " g1 " -> "g1"
      [] s = " " -> ""
      [] OTHER -> s

\* _check_group_membership: the deployment's directory, here gc.directory
check_group_membership(user_email, group_id) == <<user_email, group_id>> \in gc.directory

\* a core check without the debug branch
core_is_user_in_group_NoBypass(user_email, group_id) ==
    IF user_email = "" \/ group_id = "" THEN [result |-> FALSE, plug_calls |-> 0]
    ELSE [result |-> check_group_membership(Strip(Lower(user_email)), Strip(group_id)),
          plug_calls |-> 1]

\* core.group_auth.is_user_in_group: its result and the number of calls of
\* _check_group_membership it makes
core_is_user_in_group(user_email, group_id) ==
    IF user_email = "" \/ group_id = "" THEN [result |-> FALSE, plug_calls |-> 0]
    ELSE IF settings.DEBUG \/ settings.SKIP_HEADER_CHECK
    THEN [result |-> TRUE, plug_calls |-> 0]
    ELSE [result |-> check_group_membership(Strip(Lower(user_email)), Strip(group_id)),
          plug_calls |-> 1]

\* a cache that never expires an entry of age exactly _CACHE_TTL
Fresh_Inclusive(current_time, cached_time) == current_time - cached_time <= CacheTTL

\* a cache whose entries are never fresh
Fresh_Never(current_time, cached_time) == FALSE

\* current_time - cached_time < _CACHE_TTL
Fresh(current_time, cached_time) == current_time - cached_time < CacheTTL

CachePut(cache, key, entry) ==
    [k \in DOMAIN cache \cup {key} |-> IF k = key THEN entry ELSE cache[k]]

CacheDel(cache, keys) == [k \in DOMAIN cache \ keys |-> cache[k]]

\* a key without the debug_mode component's value
CacheKey_NoFlag(user_email, group_id) == <<Strip(Lower(user_email)), Strip(group_id), FALSE>>

\* cache_key = (user_email, group_id, debug_mode) of the normalized arguments
CacheKey(user_email, group_id) == <<Strip(Lower(user_email)), Strip(group_id), DebugMode>>

\* group_auth_helper.is_user_in_group on the cache `cache`: the value it
\* returns, the cache it leaves, the path it took and the calls it made
is_user_in_group(cache, user_email, group_id) ==
    IF user_email = "" \/ group_id = ""
    THEN [result |-> FALSE, cache |-> cache, path |-> "empty",
          core_calls |-> 0, plug_calls |-> 0]
    ELSE LET cache_key == CacheKey(user_email, group_id)
             core      == core_is_user_in_group(Strip(Lower(user_email)), Strip(group_id))
             stored    == CachePut(cache, cache_key,
                                   [is_member |-> core.result, cached_time |-> now])
         IN  IF cache_key \in DOMAIN cache /\ Fresh(now, cache[cache_key].cached_time)
             THEN [result |-> cache[cache_key].is_member, cache |-> cache, path |-> "hit",
                   core_calls |-> 0, plug_calls |-> 0]
             ELSE [result |-> core.result, cache |-> stored,
                   path |-> IF cache_key \in DOMAIN cache THEN "expired" ELSE "miss",
                   core_calls |-> 1, plug_calls |-> core.plug_calls]

\* a clear that compares the raw argument with the stored emails
clear_user_cache_Raw(cache, user_email) ==
    IF user_email = "" THEN cache
    ELSE CacheDel(cache, {k \in DOMAIN cache : k[1] = user_email})

\* clear_user_cache: the cache it leaves
clear_user_cache(cache, user_email) ==
    IF user_email = "" THEN cache
    ELSE CacheDel(cache, {k \in DOMAIN cache : k[1] = Strip(Lower(user_email))})

\* statistics whose total leaves the expired entries out
get_cache_stats_ValidOnly(cache) ==
    LET valid == {k \in DOMAIN cache : now - cache[k].cached_time < CacheTTL}
    IN  [total_entries |-> Cardinality(valid), valid_entries |-> Cardinality(valid),
         expired_entries |-> 0, cache_ttl_seconds |-> CacheTTL]

\* get_cache_stats: the dictionary it returns
get_cache_stats(cache) ==
    [total_entries     |-> Cardinality(DOMAIN cache),
     valid_entries     |-> Cardinality({k \in DOMAIN cache : Fresh(now, cache[k].cached_time)}),
     expired_entries   |-> Cardinality({k \in DOMAIN cache : ~Fresh(now, cache[k].cached_time)}),
     cache_ttl_seconds |-> CacheTTL]

(***************************************************************************)
(* SpecCache: lookups, clears, statistics, the clock and the directory.    *)
(***************************************************************************)
GcOff == [phase |-> "off"]

EmptyCache == [k \in {} |-> [is_member |-> FALSE, cached_time |-> 0]]

\* the (email, group) arguments callers pass
LookupInputs ==
    {<<"", "g1">>, <<"user1@example.com", "">>, <<" ", "g1">>,
     <<"user1@example.com", "g1">>, <<" User1@Example.COM ", " g1 ">>,
     <<"user1@example.com", "g2">>, <<"user2@example.com", "g1">>}

ClearInputs == {"", "user1@example.com", " User1@Example.COM ", "user2@example.com"}

\* the memberships the directory holds; the first can be granted and revoked
Directories ==
    {{<<"user2@example.com", "g1">>},
     {<<"user2@example.com", "g1">>, <<"user1@example.com", "g1">>}}

\* the instants of the clock, as offsets from the start
TickOffsets == <<0, 1, CacheTTL, CacheTTL + 1>>

CacheSettings ==
    {s \in Settings : /\ ~(s.DEBUG /\ s.SKIP_HEADER_CHECK)
                      /\ s.PROXY_SHARED_SECRET = ProxySecret
                      /\ s.ML_CALLBACK_HMAC_SECRET = "k1"
                      /\ s.ML_PIPELINE_REQUIRE_HMAC
                      /\ s.ML_HMAC_TIMESTAMP_SKEW_SECONDS = DefaultSkewSeconds}

\* the cache of a process whose DEBUG setting was changed after a lookup: it
\* holds an entry recorded under the other value of the bypass flag
LeftoverCache ==
    CachePut(EmptyCache, <<"user1@example.com", "g1", ~DebugMode>>,
             [is_member |-> TRUE, cached_time |-> Now0])

NoStats ==
    [total_entries |-> 0, valid_entries |-> 0, expired_entries |-> 0,
     cache_ttl_seconds |-> CacheTTL]

NoOp ==
    [kind |-> "none", email |-> "", group |-> "", result |-> FALSE, path |-> "none",
     core_calls |-> 0, plug_calls |-> 0, before |-> EmptyCache, stats |-> NoStats]

\* is_user_in_group(user_email, group_id)
GcLookup ==
    /\ gc.phase = "on"
    /\ \E a \in LookupInputs :
          LET r == is_user_in_group(gc.cache, a[1], a[2])
          IN  gc' = [gc EXCEPT !.cache = r.cache,
                               !.op = [kind |-> "lookup", email |-> a[1], group |-> a[2],
                                       result |-> r.result, path |-> r.path,
                                       core_calls |-> r.core_calls,
                                       plug_calls |-> r.plug_calls, before |-> gc.cache,
                                       stats |-> NoStats]]
    /\ UNCHANGED <<settings, api_keys, now, conn, hm, kv, db>>

\* clear_user_cache(user_email)
GcClearUser ==
    /\ gc.phase = "on"
    /\ \E e \in ClearInputs :
          gc' = [gc EXCEPT !.cache = clear_user_cache(gc.cache, e),
                           !.op = [NoOp EXCEPT !.kind = "clear_user", !.email = e,
                                               !.before = gc.cache]]
    /\ UNCHANGED <<settings, api_keys, now, conn, hm, kv, db>>

\* clear_cache()
GcClearAll ==
    /\ gc.phase = "on"
    /\ gc' = [gc EXCEPT !.cache = EmptyCache,
                        !.op = [NoOp EXCEPT !.kind = "clear_all", !.before = gc.cache]]
    /\ UNCHANGED <<settings, api_keys, now, conn, hm, kv, db>>

\* get_cache_stats()
GcStats ==
    /\ gc.phase = "on"
    /\ gc' = [gc EXCEPT !.op = [NoOp EXCEPT !.kind = "stats", !.before = gc.cache,
                                            !.stats = get_cache_stats(gc.cache)]]
    /\ UNCHANGED <<settings, api_keys, now, conn, hm, kv, db>>

\* time.time() moves on to a later instant
GcTick ==
    /\ gc.phase = "on"
    /\ \E i \in 1..Len(TickOffsets) :
          /\ Now0 + TickOffsets[i] > now
          /\ now' = Now0 + TickOffsets[i]
    /\ gc' = [gc EXCEPT !.op = [NoOp EXCEPT !.kind = "tick", !.before = gc.cache]]
    /\ UNCHANGED <<settings, api_keys, conn, hm, kv, db>>

\* the deployment's directory grants or revokes a membership
GcDirectoryChange ==
    /\ gc.phase = "on"
    /\ \E d \in Directories \ {gc.directory} :
          gc' = [gc EXCEPT !.directory = d,
                           !.op = [NoOp EXCEPT !.kind = "directory", !.before = gc.cache]]
    /\ UNCHANGED <<settings, api_keys, now, conn, hm, kv, db>>

GcInit ==
    /\ settings \in CacheSettings
    /\ now = Now0
    /\ gc \in {[phase |-> "on", cache |-> c, directory |-> d, op |-> NoOp] :
                  c \in {EmptyCache, LeftoverCache}, d \in Directories}
    /\ api_keys = <<>> /\ conn = [phase |-> "idle"]
    /\ hm = [phase |-> "off"] /\ kv = [phase |-> "off"]
    /\ db = [phase |-> "off"]

GcNext == GcLookup \/ GcClearUser \/ GcClearAll \/ GcStats \/ GcTick \/ GcDirectoryChange

SpecCache == GcInit /\ [][GcNext]_vars

(***************************************************************************)
(* SpecMode: lookups while the configuration is changed between them (the  *)
(* settings object is read at every call).  gc.recorded remembers, for     *)
(* every stored entry, the value debug_mode had when the entry was stored. *)
(***************************************************************************)
ModeInputs ==
    {<<"user1@example.com", "g1">>, <<" User1@Example.COM ", " g1 ">>,
     <<"user2@example.com", "g1">>}

\* the keys a call wrote: new ones and those whose entry changed
Written(before, after) ==
    {k \in DOMAIN after : k \notin DOMAIN before \/ after[k] # before[k]}

\* is_user_in_group(user_email, group_id)
ModeLookup ==
    /\ gc.phase = "on"
    /\ \E a \in ModeInputs :
          LET r == is_user_in_group(gc.cache, a[1], a[2])
          IN  gc' = [gc EXCEPT !.cache = r.cache,
                               !.recorded = [k \in DOMAIN r.cache |->
                                                IF k \in Written(gc.cache, r.cache)
                                                THEN DebugMode ELSE gc.recorded[k]],
                               !.op = [kind |-> "lookup", email |-> a[1], group |-> a[2],
                                       result |-> r.result, path |-> r.path,
                                       core_calls |-> r.core_calls,
                                       plug_calls |-> r.plug_calls, before |-> gc.cache,
                                       stats |-> NoStats]]
    /\ UNCHANGED <<settings, api_keys, now, conn, hm, kv, db>>

\* settings.DEBUG or settings.SKIP_HEADER_CHECK is set or reset
ModeReconfigure ==
    /\ gc.phase = "on"
    /\ settings' \in CacheSettings \ {settings}
    /\ gc' = [gc EXCEPT !.op = [NoOp EXCEPT !.kind = "configure", !.before = gc.cache]]
    /\ UNCHANGED <<api_keys, now, conn, hm, kv, db>>

ModeInit ==
    /\ settings \in CacheSettings
    /\ now = Now0
    /\ gc \in {[phase |-> "on", cache |-> EmptyCache, directory |-> d, op |-> NoOp,
                recorded |-> [k \in {} |-> FALSE]] : d \in Directories}
    /\ api_keys = <<>> /\ conn = [phase |-> "idle"]
    /\ hm = [phase |-> "off"] /\ kv = [phase |-> "off"]
    /\ db = [phase |-> "off"]

ModeNext == ModeLookup \/ ModeReconfigure \/ GcTick

SpecMode == ModeInit /\ [][ModeNext]_vars

(***************************************************************************)
(* The composite helpers is_user_in_any_group and is_user_in_all_groups:   *)
(* the value returned, the cache left and the number of is_user_in_group   *)
(* calls made.                                                             *)
(***************************************************************************)
RECURSIVE AnyFrom(_, _, _, _)
\* for group_id in group_ids: if is_user_in_group(...): return True
AnyFrom(cache, user_email, group_ids, i) ==
    IF i > Len(group_ids) THEN [result |-> FALSE, cache |-> cache, lookups |-> i - 1]
    ELSE LET r == is_user_in_group(cache, user_email, group_ids[i])
         IN  IF r.result THEN [result |-> TRUE, cache |-> r.cache, lookups |-> i]
             ELSE AnyFrom(r.cache, user_email, group_ids, i + 1)

RECURSIVE AllFrom(_, _, _, _)
\* for group_id in group_ids: if not is_user_in_group(...): return False
AllFrom(cache, user_email, group_ids, i) ==
    IF i > Len(group_ids) THEN [result |-> TRUE, cache |-> cache, lookups |-> i - 1]
    ELSE LET r == is_user_in_group(cache, user_email, group_ids[i])
         IN  IF ~r.result THEN [result |-> FALSE, cache |-> r.cache, lookups |-> i]
             ELSE AllFrom(r.cache, user_email, group_ids, i + 1)

RECURSIVE AnyFrom_NoShortCircuit(_, _, _, _)
\* a loop that looks every group up before it answers
AnyFrom_NoShortCircuit(cache, user_email, group_ids, i) ==
    IF i > Len(group_ids) THEN [result |-> FALSE, cache |-> cache, lookups |-> i - 1]
    ELSE LET r    == is_user_in_group(cache, user_email, group_ids[i])
             rest == AnyFrom_NoShortCircuit(r.cache, user_email, group_ids, i + 1)
         IN  [rest EXCEPT !.result = r.result \/ rest.result]

is_user_in_any_group_NoShortCircuit(cache, user_email, group_ids) ==
    IF user_email = "" \/ group_ids = <<>>
    THEN [result |-> FALSE, cache |-> cache, lookups |-> 0]
    ELSE AnyFrom_NoShortCircuit(cache, user_email, group_ids, 1)

is_user_in_any_group(cache, user_email, group_ids) ==
    IF user_email = "" \/ group_ids = <<>>
    THEN [result |-> FALSE, cache |-> cache, lookups |-> 0]
    ELSE AnyFrom(cache, user_email, group_ids, 1)

is_user_in_all_groups(cache, user_email, group_ids) ==
    IF user_email = "" \/ group_ids = <<>>
    THEN [result |-> FALSE, cache |-> cache, lookups |-> 0]
    ELSE AllFrom(cache, user_email, group_ids, 1)

(***************************************************************************)
(* SpecGroups: the composite helpers called with lists of group ids, on    *)
(* the cache the earlier calls left.                                       *)
(***************************************************************************)
MaxGroups == 3

GroupIds == {"g1", "g2"}

GroupLists == UNION {[1..n -> GroupIds] : n \in 0..MaxGroups}

GroupUsers == {"", "user2@example.com"}

\* directories in which the user is in one or in both of the groups
GroupDirectories ==
    {{<<"user2@example.com", "g1">>},
     {<<"user2@example.com", "g1">>, <<"user2@example.com", "g2">>}}

NoCall ==
    [kind |-> "none", email |-> "", groups |-> <<>>, result |-> FALSE, lookups |-> 0,
     before |-> EmptyCache]

\* is_user_in_any_group(user_email, group_ids)
GrAnyGroup ==
    /\ gc.phase = "on"
    /\ \E e \in GroupUsers, gs \in GroupLists :
          LET r == is_user_in_any_group(gc.cache, e, gs)
          IN  gc' = [gc EXCEPT !.cache = r.cache,
                               !.op = [NoOp EXCEPT !.kind = "any", !.before = gc.cache],
                               !.call = [kind |-> "any", email |-> e, groups |-> gs,
                                         result |-> r.result, lookups |-> r.lookups,
                                         before |-> gc.cache]]
    /\ UNCHANGED <<settings, api_keys, now, conn, hm, kv, db>>

\* is_user_in_all_groups(user_email, group_ids)
GrAllGroups ==
    /\ gc.phase = "on"
    /\ \E e \in GroupUsers, gs \in GroupLists :
          LET r == is_user_in_all_groups(gc.cache, e, gs)
          IN  gc' = [gc EXCEPT !.cache = r.cache,
                               !.op = [NoOp EXCEPT !.kind = "all", !.before = gc.cache],
                               !.call = [kind |-> "all", email |-> e, groups |-> gs,
                                         result |-> r.result, lookups |-> r.lookups,
                                         before |-> gc.cache]]
    /\ UNCHANGED <<settings, api_keys, now, conn, hm, kv, db>>

GrInit ==
    /\ settings \in CacheSettings
    /\ now = Now0
    /\ gc \in {[phase |-> "on", cache |-> EmptyCache, directory |-> d, op |-> NoOp,
                call |-> NoCall] : d \in GroupDirectories}
    /\ api_keys = <<>> /\ conn = [phase |-> "idle"]
    /\ hm = [phase |-> "off"] /\ kv = [phase |-> "off"]
    /\ db = [phase |-> "off"]

GrNext == GrAnyGroup \/ GrAllGroups

SpecGroups == GrInit /\ [][GrNext]_vars

(***************************************************************************)
(* request.state as auth_middleware leaves it.  An attribute is <<>> when  *)
(* it is not set and <<value>> when it is; the value of user_groups is a   *)
(* list.  The groups header is a header the client or the proxy may send;  *)
(* the middleware reads the identity and the proxy-secret header only.     *)
(***************************************************************************)
NoState == [user_email |-> <<>>, is_authenticated |-> <<>>, user_groups |-> <<>>]

\* the groups a client claims in a header, as the list it would parse to
HeaderGroups == <<"admin", "users">>

\* a middleware that takes the groups of a production request from its header
auth_middleware_state_GroupsFromHeader(req, groups_header, state) ==
    IF ExemptPath(req.path) \/ DependencyAuthPath(req.path) \/ DebugMode
       \/ ~auth_middleware(req).forward
    THEN state
    ELSE [user_email |-> <<auth_middleware(req).user_email>>, is_authenticated |-> <<TRUE>>,
          user_groups |-> groups_header]

\* the attributes of request.state when auth_middleware returns
auth_middleware_state(req, groups_header, state) ==
    IF ExemptPath(req.path) \/ DependencyAuthPath(req.path)
    THEN [state EXCEPT !.is_authenticated = IF @ = <<>> THEN <<FALSE>> ELSE @]
    ELSE IF DebugMode
    THEN [user_email |-> <<auth_middleware(req).user_email>>, is_authenticated |-> <<TRUE>>,
          user_groups |-> IF state.user_groups = <<>> THEN << <<>> >> ELSE state.user_groups]
    ELSE IF ~auth_middleware(req).forward
    THEN state
    ELSE [user_email |-> <<auth_middleware(req).user_email>>, is_authenticated |-> <<TRUE>>,
          user_groups |-> <<>>]

(***************************************************************************)
(* SpecState: the middleware applied to requests with and without a groups *)
(* header, on a request.state with and without a user_groups attribute.    *)
(***************************************************************************)
\* the headers of header mode, with identity headers that are empty, padded
\* and in capitals
StateHeaderInputs ==
    [proxy_secret : {None, ProxySecret, "wrong"},
     user_header  : {None, "", "alice@example.com", " Alice@Example.COM ", "not-an-email"}]

StateRequests ==
    RequestsTo(<<"api", "health">>, <<>>, HeaderModeEnds, NoHmacHeaders)
    \cup RequestsTo(<<"api", "projects">>, <<>>, StateHeaderInputs, NoHmacHeaders)
    \cup RequestsTo(<<"api-key", "projects">>, <<>>, HeaderModeEnds, NoHmacHeaders)

GroupsHeaderInputs == {<<>>, <<HeaderGroups>>}

StateInputs == {NoState, [NoState EXCEPT !.user_groups = <<HeaderGroups>>]}

StateSettings ==
    {s \in Settings : /\ s.ML_CALLBACK_HMAC_SECRET = "k1"
                      /\ s.ML_PIPELINE_REQUIRE_HMAC
                      /\ s.ML_HMAC_TIMESTAMP_SKEW_SECONDS = DefaultSkewSeconds}

\* auth_middleware(request, call_next) up to call_next or its own response
StMiddleware ==
    /\ conn.phase = "idle"
    /\ \E req \in StateRequests, g \in GroupsHeaderInputs, st \in StateInputs :
          conn' = [phase |-> "done", req |-> req, groups_header |-> g,
                   state_before |-> st, state |-> auth_middleware_state(req, g, st),
                   forward |-> auth_middleware(req).forward,
                   status |-> auth_middleware(req).status]
    /\ UNCHANGED <<settings, api_keys, now, hm, kv, gc, db>>

StInit ==
    /\ settings \in StateSettings
    /\ api_keys = <<>>
    /\ now = Now0
    /\ conn = ConnIdle
    /\ hm = [phase |-> "off"] /\ kv = [phase |-> "off"] /\ gc = [phase |-> "off"]
    /\ db = [phase |-> "off"]

StNext == StMiddleware \/ Respond

SpecState == StInit /\ [][StNext]_vars

(***************************************************************************)
(* SpecFresh: lookups and clears while grants and revocations happen in    *)
(* the directory.  gc.hist remembers which directory was in force at       *)
(* which instant.                                                          *)
(***************************************************************************)
\* the directory is in force at the instant the clock shows
Seen(hist, t, d) == hist \cup {<<t, d>>}

\* time.time() moves on to a later instant
FrTick ==
    /\ gc.phase = "on"
    /\ \E i \in 1..Len(TickOffsets) :
          /\ Now0 + TickOffsets[i] > now
          /\ now' = Now0 + TickOffsets[i]
          /\ gc' = [gc EXCEPT !.hist = Seen(gc.hist, Now0 + TickOffsets[i], gc.directory),
                              !.op = [NoOp EXCEPT !.kind = "tick", !.before = gc.cache]]
    /\ UNCHANGED <<settings, api_keys, conn, hm, kv, db>>

\* the deployment's directory grants or revokes a membership
FrDirectoryChange ==
    /\ gc.phase = "on"
    /\ \E d \in Directories \ {gc.directory} :
          gc' = [gc EXCEPT !.directory = d, !.hist = Seen(gc.hist, now, d),
                           !.op = [NoOp EXCEPT !.kind = "directory", !.before = gc.cache]]
    /\ UNCHANGED <<settings, api_keys, now, conn, hm, kv, db>>

FreshInputs == {<<"user1@example.com", "g1">>, <<" User1@Example.COM ", " g1 ">>}

\* is_user_in_group(user_email, group_id)
FrLookup ==
    /\ gc.phase = "on"
    /\ \E a \in FreshInputs :
          LET r == is_user_in_group(gc.cache, a[1], a[2])
          IN  gc' = [gc EXCEPT !.cache = r.cache,
                               !.op = [kind |-> "lookup", email |-> a[1], group |-> a[2],
                                       result |-> r.result, path |-> r.path,
                                       core_calls |-> r.core_calls,
                                       plug_calls |-> r.plug_calls, before |-> gc.cache,
                                       stats |-> NoStats]]
    /\ UNCHANGED <<settings, api_keys, now, conn, hm, kv, db>>

\* clear_user_cache(user_email)
FrClearUser ==
    /\ gc.phase = "on"
    /\ \E a \in FreshInputs :
          gc' = [gc EXCEPT !.cache = clear_user_cache(gc.cache, a[1]),
                           !.op = [NoOp EXCEPT !.kind = "clear_user", !.email = a[1],
                                               !.before = gc.cache]]
    /\ UNCHANGED <<settings, api_keys, now, conn, hm, kv, db>>

FrInit ==
    /\ settings \in CacheSettings
    /\ now = Now0
    /\ gc \in {[phase |-> "on", cache |-> EmptyCache, directory |-> d, op |-> NoOp,
                hist |-> {<<Now0, d>>}] : d \in Directories}
    /\ api_keys = <<>> /\ conn = [phase |-> "idle"]
    /\ hm = [phase |-> "off"] /\ kv = [phase |-> "off"]
    /\ db = [phase |-> "off"]

FrNext == FrLookup \/ FrClearUser \/ GcClearAll \/ FrTick \/ FrDirectoryChange

SpecFresh == FrInit /\ [][FrNext]_vars

(***************************************************************************)
(* SpecDb: the server with a database whose UPDATE of last_used_at can     *)
(* fail.  get_user_from_api_key awaits crud.update_api_key_last_used       *)
(* between the match and its return; an exception of the update leaves the *)
(* dependency and the request is answered 500.                             *)
(***************************************************************************)
DbRequests ==
    RequestsTo(<<"api", "projects">>, <<>>, HeaderModeEnds, NoHmacHeaders)
    \cup RequestsTo(<<"api-key", "projects">>, <<>>, HeaderModeEnds, NoHmacHeaders)
    \cup RequestsTo(<<"api-ml", "projects">>, <<>>, HeaderModeEnds, HmacHeaderInputs(<<>>))

\* the update of last_used_at is reached: the dependency runs and a row matches
UpdateReached(req) ==
    /\ auth_middleware(req).forward
    /\ ~ExemptPath(req.path)
    /\ req.bearer # None
    /\ FirstMatch(api_keys, req.bearer) # 0

\* the response when the update raises inside get_user_from_api_key
ServeDb(req, update_ok) ==
    IF UpdateReached(req) /\ ~update_ok
    THEN [status |-> 500, reached |-> FALSE, user |-> None,
          state_user_email |-> auth_middleware(req).user_email, api_user |-> None,
          dep_check |-> "none", handler_check |-> "none", log |-> auth_middleware(req).log]
    ELSE Serve(req)

HandleRequestDb ==
    /\ conn.phase = "idle"
    /\ \E req \in DbRequests, update_ok \in BOOLEAN :
          /\ conn' = [phase |-> "done", req |-> req, resp |-> ServeDb(req, update_ok),
                      update_ok |-> update_ok]
          /\ api_keys' = IF update_ok THEN TouchLastUsed(api_keys, req) ELSE api_keys
    /\ UNCHANGED <<settings, now, hm, kv, gc, db>>

DbNext == CreateApiKey \/ DeactivateApiKey \/ HandleRequestDb \/ Respond

SpecDb == Init /\ [][DbNext]_vars

(***************************************************************************)
(* Group-gated resources: the projects and images tables, the dependencies *)
(* get_project_or_403, get_image_or_403 and requires_group_membership, and *)
(* the image delete and restore routes.  A nullable column is <<>> when    *)
(* NULL and <<value>> otherwise; a call returns its status, the data of    *)
(* its response (<<>> when it raised), and the cache and rows it leaves.   *)
(***************************************************************************)
\* settings.IMAGE_DELETE_RETENTION_DAYS
RetentionDays == 60
\* settings.IMAGE_DELETE_REASON_MIN_CHARS
ReasonMinChars == 10
\* timedelta(days=1), in the seconds the clock counts
SecondsPerDay == 86400

Projects ==
    [p \in {"p1", "p2"} |-> [id |-> p, meta_group_id |-> IF p = "p1" THEN "g1" ELSE "g2"]]

\* an uploaded image of project p1
Image0 ==
    [id |-> "i1", project_id |-> "p1", deleted_at |-> <<>>,
     pending_hard_delete_at |-> <<>>, deletion_reason |-> <<>>,
     storage_deleted |-> FALSE]

\* crud.get_project
get_project(project_id) ==
    IF project_id \in DOMAIN Projects THEN <<Projects[project_id]>> ELSE <<>>

\* crud.get_data_instance (crud.get_image is its alias)
get_data_instance(images, image_id) ==
    IF image_id \in DOMAIN images THEN <<images[image_id]>> ELSE <<>>

\* db_image.project.meta_group_id
ProjectGroup(image) == Projects[image.project_id].meta_group_id

Refused(code, cache, images) ==
    [status |-> code, data |-> <<>>, cache |-> cache, images |-> images]

Answered(data, cache, images) ==
    [status |-> 200, data |-> <<data>>, cache |-> cache, images |-> images]

\* a gate that hands the project to every caller
get_project_or_403_NoCheck(cache, project_id, email) ==
    LET db_project == get_project(project_id)
    IN  IF db_project = <<>> THEN Refused(404, cache, <<>>)
        ELSE Answered(db_project[1], cache, <<>>)

get_project_or_403(cache, project_id, email) ==
    LET db_project == get_project(project_id)
        is_member  == is_user_in_group(cache, email, db_project[1].meta_group_id)
    IN  IF db_project = <<>> THEN Refused(404, cache, <<>>)
        ELSE IF ~is_member.result THEN Refused(403, is_member.cache, <<>>)
        ELSE Answered(db_project[1], is_member.cache, <<>>)

get_image_or_403(images, cache, image_id, email) ==
    LET db_image  == get_data_instance(images, image_id)
        is_member == is_user_in_group(cache, email, ProjectGroup(db_image[1]))
    IN  IF db_image = <<>> THEN Refused(404, cache, images)
        ELSE IF ~is_member.result THEN Refused(403, is_member.cache, images)
        ELSE Answered(db_image[1], is_member.cache, images)

requires_group_membership(cache, required_group_id, email) ==
    LET is_member == is_user_in_group(cache, email, required_group_id)
    IN  IF ~is_member.result THEN Refused(403, is_member.cache, <<>>)
        ELSE Answered(TRUE, is_member.cache, <<>>)

\* crud.soft_delete_image
soft_delete_image(image, reason, retention_days) ==
    IF image.deleted_at # <<>> /\ image.storage_deleted THEN image
    ELSE IF image.deleted_at = <<>>
    THEN [image EXCEPT !.deleted_at = <<now>>,
                       !.deletion_reason = <<reason>>,
                       !.pending_hard_delete_at = <<now + retention_days * SecondsPerDay>>]
    ELSE IF image.deletion_reason = <<>>
    THEN [image EXCEPT !.deletion_reason = <<reason>>]
    ELSE image

\* crud.mark_image_storage_deleted
mark_image_storage_deleted(image) == [image EXCEPT !.storage_deleted = TRUE]

\* crud.restore_image
restore_image(image) ==
    [image EXCEPT !.deleted_at = <<>>, !.deletion_reason = <<>>,
                  !.pending_hard_delete_at = <<>>, !.storage_deleted = FALSE]

\* DELETE /projects/{project_id}/images/{image_id}
delete_image(images, cache, project_id, image_id, email, reason, force) ==
    LET db_image  == get_data_instance(images, image_id)
        is_member == is_user_in_group(cache, email, ProjectGroup(db_image[1]))
        soft      == IF db_image[1].deleted_at = <<>>
                     THEN soft_delete_image(db_image[1], reason, RetentionDays)
                     ELSE db_image[1]
        hard      == IF force /\ ~soft.storage_deleted
                     THEN mark_image_storage_deleted(soft)
                     ELSE soft
    IN  IF Len(reason) < ReasonMinChars THEN Refused(400, cache, images)
        ELSE IF db_image = <<>> \/ db_image[1].project_id # project_id
        THEN Refused(404, cache, images)
        ELSE IF ~is_member.result THEN Refused(403, is_member.cache, images)
        ELSE Answered(hard, is_member.cache, [images EXCEPT ![image_id] = hard])

\* a restore that does not look at storage_deleted
restore_deleted_image_Permanent(images, cache, project_id, image_id, email) ==
    LET db_image  == get_data_instance(images, image_id)
        is_member == is_user_in_group(cache, email, ProjectGroup(db_image[1]))
        restored  == restore_image(db_image[1])
    IN  IF db_image = <<>> \/ db_image[1].project_id # project_id
        THEN Refused(404, cache, images)
        ELSE IF db_image[1].deleted_at = <<>> THEN Answered(db_image[1], cache, images)
        ELSE IF ~is_member.result THEN Refused(403, is_member.cache, images)
        ELSE IF /\ db_image[1].pending_hard_delete_at # <<>>
                /\ now > db_image[1].pending_hard_delete_at[1]
        THEN Refused(410, is_member.cache, images)
        ELSE Answered(restored, is_member.cache, [images EXCEPT ![image_id] = restored])

\* a restore that ignores the retention deadline
restore_deleted_image_NoDeadline(images, cache, project_id, image_id, email) ==
    LET db_image  == get_data_instance(images, image_id)
        is_member == is_user_in_group(cache, email, ProjectGroup(db_image[1]))
        restored  == restore_image(db_image[1])
    IN  IF db_image = <<>> \/ db_image[1].project_id # project_id
        THEN Refused(404, cache, images)
        ELSE IF db_image[1].deleted_at = <<>> THEN Answered(db_image[1], cache, images)
        ELSE IF db_image[1].storage_deleted THEN Refused(409, cache, images)
        ELSE IF ~is_member.result THEN Refused(403, is_member.cache, images)
        ELSE Answered(restored, is_member.cache, [images EXCEPT ![image_id] = restored])

\* POST /projects/{project_id}/images/{image_id}/restore
restore_deleted_image(images, cache, project_id, image_id, email) ==
    LET db_image  == get_data_instance(images, image_id)
        is_member == is_user_in_group(cache, email, ProjectGroup(db_image[1]))
        restored  == restore_image(db_image[1])
    IN  IF db_image = <<>> \/ db_image[1].project_id # project_id
        THEN Refused(404, cache, images)
        ELSE IF db_image[1].deleted_at = <<>> THEN Answered(db_image[1], cache, images)
        ELSE IF db_image[1].storage_deleted THEN Refused(409, cache, images)
        ELSE IF ~is_member.result THEN Refused(403, is_member.cache, images)
        ELSE IF /\ db_image[1].pending_hard_delete_at # <<>>
                /\ now > db_image[1].pending_hard_delete_at[1]
        THEN Refused(410, is_member.cache, images)
        ELSE Answered(restored, is_member.cache, [images EXCEPT ![image_id] = restored])

(***************************************************************************)
(* SpecImages: members and non-members call the gates and the delete and   *)
(* restore routes while the clock passes the retention deadline.  db.op    *)
(* is the last call: its arguments and what it answered.                   *)
(***************************************************************************)
ImageUsers == {"user1@example.com", "user2@example.com"}

ProjectIds == {"p1", "p2", "p9"}

ImageIds == {"i1", "i9"}

DeleteReasons ==
    {<<"b", "a", "d", " ", "s", "c", "a", "n">>,
     <<"d", "u", "p", "l", "i", "c", "a", "t", "e", "d">>}

\* the instants of the clock, as offsets from the start
RetentionOffsets == <<0, RetentionDays * SecondsPerDay, RetentionDays * SecondsPerDay + 1>>

NoImageOp ==
    [kind |-> "none", email |-> "", project_id |-> "", image_id |-> "", group |-> "",
     force |-> FALSE, status |-> 0, data |-> <<>>]

ImageOp(kind, email, project_id, image_id, group, force, r) ==
    [kind |-> kind, email |-> email, project_id |-> project_id, image_id |-> image_id,
     group |-> group, force |-> force, status |-> r.status, data |-> r.data]

ImGetProject ==
    /\ db.phase = "images"
    /\ \E email \in ImageUsers, project_id \in {"p1", "p9"} :
          LET r == get_project_or_403(gc.cache, project_id, email)
          IN  /\ gc' = [gc EXCEPT !.cache = r.cache]
              /\ db' = [db EXCEPT !.op = ImageOp("get_project", email, project_id, "",
                                                 "", FALSE, r)]
    /\ UNCHANGED <<settings, api_keys, now, conn, hm, kv>>

ImGetImage ==
    /\ db.phase = "images"
    /\ \E email \in ImageUsers, image_id \in ImageIds :
          LET r == get_image_or_403(db.images, gc.cache, image_id, email)
          IN  /\ gc' = [gc EXCEPT !.cache = r.cache]
              /\ db' = [db EXCEPT !.op = ImageOp("get_image", email, "", image_id,
                                                 "", FALSE, r)]
    /\ UNCHANGED <<settings, api_keys, now, conn, hm, kv>>

ImRequires ==
    /\ db.phase = "images"
    /\ \E email \in ImageUsers, group \in {"g1"} :
          LET r == requires_group_membership(gc.cache, group, email)
          IN  /\ gc' = [gc EXCEPT !.cache = r.cache]
              /\ db' = [db EXCEPT !.op = ImageOp("requires", email, "", "", group,
                                                 FALSE, r)]
    /\ UNCHANGED <<settings, api_keys, now, conn, hm, kv>>

ImDelete ==
    /\ db.phase = "images"
    /\ \E email \in ImageUsers, project_id \in ProjectIds, image_id \in ImageIds,
          reason \in DeleteReasons, force \in BOOLEAN :
          LET r == delete_image(db.images, gc.cache, project_id, image_id, email,
                                reason, force)
          IN  /\ gc' = [gc EXCEPT !.cache = r.cache]
              /\ db' = [db EXCEPT !.images = r.images,
                                  !.op = ImageOp("delete", email, project_id, image_id,
                                                 "", force, r)]
    /\ UNCHANGED <<settings, api_keys, now, conn, hm, kv>>

ImRestore ==
    /\ db.phase = "images"
    /\ \E email \in ImageUsers, project_id \in ProjectIds, image_id \in ImageIds :
          LET r == restore_deleted_image(db.images, gc.cache, project_id, image_id, email)
          IN  /\ gc' = [gc EXCEPT !.cache = r.cache]
              /\ db' = [db EXCEPT !.images = r.images,
                                  !.op = ImageOp("restore", email, project_id, image_id,
                                                 "", FALSE, r)]
    /\ UNCHANGED <<settings, api_keys, now, conn, hm, kv>>

\* time passes
ImTick ==
    /\ db.phase = "images"
    /\ \E i \in 1..Len(RetentionOffsets) :
          /\ Now0 + RetentionOffsets[i] > now
          /\ now' = Now0 + RetentionOffsets[i]
    /\ db' = [db EXCEPT !.op = NoImageOp]
    /\ UNCHANGED <<settings, api_keys, conn, hm, kv, gc>>

ImInit ==
    /\ settings \in {s \in CacheSettings : ~s.SKIP_HEADER_CHECK}
    /\ now = Now0
    /\ gc \in {[phase |-> "on", cache |-> EmptyCache, directory |-> d, op |-> NoOp] :
                  d \in Directories}
    /\ db = [phase |-> "images", images |-> [i \in {"i1"} |-> Image0], op |-> NoImageOp]
    /\ api_keys = <<>> /\ conn = [phase |-> "idle"]
    /\ hm = [phase |-> "off"] /\ kv = [phase |-> "off"]

ImNext == ImGetProject \/ ImGetImage \/ ImRequires \/ ImDelete \/ ImRestore \/ ImTick

SpecImages == ImInit /\ [][ImNext]_vars

(***************************************************************************)
(* ML analyses: the status state machine of PATCH /analyses/{id}/status    *)
(* and POST /analyses/{id}/finalize (routers/ml_analyses.py), with the ML  *)
(* analysis feature enabled.  A finalize request carries its raw body and  *)
(* the signature headers of the pipeline that sent it.                     *)
(***************************************************************************)
VALID_STATUS_TRANSITIONS ==
    [old \in {"queued", "processing"} |->
        IF old = "queued" THEN {"processing", "canceled"}
        ELSE {"completed", "failed", "canceled"}]

\* VALID_STATUS_TRANSITIONS.get(old_status, set())
Allowed(old_status) ==
    IF old_status \in DOMAIN VALID_STATUS_TRANSITIONS
    THEN VALID_STATUS_TRANSITIONS[old_status] ELSE {}

\* str.lower() on the status strings of the model
StatusLower(s) ==
    CASE s = "Completed" -> "completed" [] OTHER -> s

\* a created analysis of image i1
Analysis0 ==
    [id |-> "a1", image_id |-> "i1", status |-> "queued", started_at |-> <<>>,
     completed_at |-> <<>>, error_message |-> <<>>]

\* crud.get_ml_analysis, crud.get_ml_analysis_for_update: the row read
get_ml_analysis(analyses, analysis_id) ==
    IF analysis_id \in DOMAIN analyses THEN <<analyses[analysis_id]>> ELSE <<>>

\* the assignments of a status change
WithStatus(db_obj, new_status, error_message, direct) ==
    [db_obj EXCEPT
        !.started_at = IF (direct \/ new_status = "processing") /\ db_obj.started_at = <<>>
                       THEN <<now>> ELSE @,
        !.completed_at = IF new_status \in {"completed", "failed", "canceled"}
                         THEN <<now>> ELSE @,
        !.status = new_status,
        !.error_message = IF error_message \notin {None, ""} THEN <<error_message>> ELSE @]

\* a status update without the transition table
update_ml_analysis_status_AnyTransition(analyses, images, cache, analysis_id, status, error_message, email) ==
    LET db_obj     == get_ml_analysis(analyses, analysis_id)
        access     == get_image_or_403(images, cache, db_obj[1].image_id, email)
        new_status == StatusLower(status)
        changed    == WithStatus(db_obj[1], new_status, error_message, FALSE)
    IN  IF db_obj = <<>> THEN Refused(404, cache, analyses)
        ELSE IF access.status # 200 THEN Refused(access.status, access.cache, analyses)
        ELSE Answered(changed, access.cache, [analyses EXCEPT ![analysis_id] = changed])

update_ml_analysis_status(analyses, images, cache, analysis_id, status, error_message, email) ==
    LET db_obj     == get_ml_analysis(analyses, analysis_id)
        access     == get_image_or_403(images, cache, db_obj[1].image_id, email)
        new_status == StatusLower(status)
        old_status == StatusLower(db_obj[1].status)
        changed    == WithStatus(db_obj[1], new_status, error_message, FALSE)
    IN  IF db_obj = <<>> THEN Refused(404, cache, analyses)
        ELSE IF access.status # 200 THEN Refused(access.status, access.cache, analyses)
        ELSE IF old_status = new_status THEN Answered(db_obj[1], access.cache, analyses)
        ELSE IF new_status \notin Allowed(old_status)
        THEN Refused(409, access.cache, analyses)
        ELSE Answered(changed, access.cache, [analyses EXCEPT ![analysis_id] = changed])

\* the finalize request of a pipeline that signs with secret k
FinalizeRequest(k) ==
    LET h == HmacHeaders(CallbackBody, 0, k)
    IN  [body |-> CallbackBody, timestamp |-> h.timestamp, signature |-> h.signature]

\* the fast path of finalize_analysis
FinalizesDirectly(db_obj, status) ==
    db_obj.status = "queued" /\ StatusLower(status) \in {"completed", "failed"}

\* a finalize whose fast path does not look at the stored status
finalize_analysis_FromAny(analyses, images, cache, analysis_id, status, error_message, email, signer) ==
    LET db_obj  == get_ml_analysis(analyses, analysis_id)
        access  == get_image_or_403(images, cache, db_obj[1].image_id, email)
        hmac    == verify_pipeline_hmac(FinalizeRequest(signer)).status
        changed == WithStatus(db_obj[1], StatusLower(status), error_message, TRUE)
    IN  IF db_obj = <<>> THEN Refused(404, cache, analyses)
        ELSE IF access.status # 200 THEN Refused(access.status, access.cache, analyses)
        ELSE IF hmac # 200 THEN Refused(hmac, access.cache, analyses)
        ELSE IF status \in {None, ""} THEN Answered(db_obj[1], access.cache, analyses)
        ELSE IF StatusLower(status) \in {"completed", "failed"}
        THEN Answered(changed, access.cache, [analyses EXCEPT ![analysis_id] = changed])
        ELSE update_ml_analysis_status(analyses, images, access.cache, analysis_id,
                                       status, error_message, email)

finalize_analysis(analyses, images, cache, analysis_id, status, error_message, email, signer) ==
    LET db_obj  == get_ml_analysis(analyses, analysis_id)
        access  == get_image_or_403(images, cache, db_obj[1].image_id, email)
        hmac    == verify_pipeline_hmac(FinalizeRequest(signer)).status
        changed == WithStatus(db_obj[1], StatusLower(status), error_message, TRUE)
    IN  IF db_obj = <<>> THEN Refused(404, cache, analyses)
        ELSE IF access.status # 200 THEN Refused(access.status, access.cache, analyses)
        ELSE IF hmac # 200 THEN Refused(hmac, access.cache, analyses)
        ELSE IF status \in {None, ""} THEN Answered(db_obj[1], access.cache, analyses)
        ELSE IF FinalizesDirectly(db_obj[1], status)
        THEN Answered(changed, access.cache, [analyses EXCEPT ![analysis_id] = changed])
        ELSE update_ml_analysis_status(analyses, images, access.cache, analysis_id,
                                       status, error_message, email)

(***************************************************************************)
(* SpecAnalysis: status updates and finalize calls on one analysis, one    *)
(* after the other.  db.op is the last call and its answer.                *)
(***************************************************************************)
StatusInputs ==
    {"queued", "processing", "completed", "failed", "canceled", "Completed", "archived"}

ErrorMessages == {None, "Out of memory"}

AnalysisIds == {"a1", "a9"}

NoAnalysisOp ==
    [kind |-> "none", email |-> "", analysis_id |-> "", new |-> None,
     signer |-> None, status |-> 0, data |-> <<>>]

AnalysisOp(kind, email, analysis_id, new, signer, r) ==
    [kind |-> kind, email |-> email, analysis_id |-> analysis_id, new |-> new,
     signer |-> signer, status |-> r.status, data |-> r.data]

AnPatch ==
    /\ db.phase = "analyses"
    /\ \E email \in ImageUsers, analysis_id \in AnalysisIds, status \in StatusInputs,
          error_message \in ErrorMessages :
          LET r == update_ml_analysis_status(db.analyses, db.images, gc.cache,
                                             analysis_id, status, error_message, email)
          IN  /\ gc' = [gc EXCEPT !.cache = r.cache]
              /\ db' = [db EXCEPT !.analyses = r.images,
                                  !.op = AnalysisOp("patch", email, analysis_id, status,
                                                    None, r)]
    /\ UNCHANGED <<settings, api_keys, now, conn, hm, kv>>

AnFinalize ==
    /\ db.phase = "analyses"
    /\ \E email \in ImageUsers, analysis_id \in AnalysisIds,
          status \in StatusInputs \cup {None}, error_message \in ErrorMessages,
          signer \in Secrets :
          LET r == finalize_analysis(db.analyses, db.images, gc.cache, analysis_id,
                                     status, error_message, email, signer)
          IN  /\ gc' = [gc EXCEPT !.cache = r.cache]
              /\ db' = [db EXCEPT !.analyses = r.images,
                                  !.op = AnalysisOp("finalize", email, analysis_id, status,
                                                    signer, r)]
    /\ UNCHANGED <<settings, api_keys, now, conn, hm, kv>>

AnInit ==
    /\ settings \in {s \in Settings : /\ ~s.DEBUG /\ ~s.SKIP_HEADER_CHECK
                                      /\ s.PROXY_SHARED_SECRET = ProxySecret
                                      /\ s.ML_HMAC_TIMESTAMP_SKEW_SECONDS = DefaultSkewSeconds}
    /\ now = Now0
    /\ gc = [phase |-> "on", cache |-> EmptyCache,
             directory |-> {<<"user2@example.com", "g1">>}, op |-> NoOp]
    /\ db = [phase |-> "analyses", images |-> [i \in {"i1"} |-> Image0],
             analyses |-> [a \in {"a1"} |-> Analysis0], op |-> NoAnalysisOp]
    /\ api_keys = <<>> /\ conn = [phase |-> "idle"]
    /\ hm = [phase |-> "off"] /\ kv = [phase |-> "off"]

AnNext == AnPatch \/ AnFinalize

SpecAnalysis == AnInit /\ [][AnNext]_vars

(***************************************************************************)
(* SpecRace: two requests in flight on one analysis, each with its own     *)
(* database session.  A handler runs up to its next await of the database  *)
(* and then another request may run.  crud.get_ml_analysis_for_update      *)
(* (SELECT ... FOR UPDATE) waits while another session holds the row lock  *)
(* and holds it to the end of its transaction; crud.get_ml_analysis reads  *)
(* the committed row without waiting; the UPDATE of a commit waits for the *)
(* row lock and writes the columns the session changed.  db.op is the last *)
(* request that finished: the status its decision was based on and the     *)
(* status stored when it wrote.  db.lock is the set of sessions that hold   *)
(* the row lock.                                                           *)
(***************************************************************************)
RaceRequests == {1, 2}

RaceStatuses == {"processing", "completed", "canceled"}

IdleRequest ==
    [pc |-> "idle", kind |-> "none", new |-> None, email |-> "", signer |-> None,
     seen |-> <<>>]

NoRaceOp ==
    [kind |-> "none", status |-> 0, applied |-> FALSE, based_on |-> None,
     stored |-> None]

RaceOp(req, code, applied) ==
    [kind |-> req.kind, status |-> code, applied |-> applied,
     based_on |-> req.seen[1].status, stored |-> db.analyses["a1"].status]

\* the UPDATE a commit sends: the columns the session changed
Flush(stored, seen, changed) ==
    [c \in DOMAIN stored |-> IF changed[c] # seen[c] THEN changed[c] ELSE stored[c]]

\* a request arrives
RcBegin(r) ==
    /\ db.phase = "race"
    /\ db.reqs[r].pc = "idle"
    /\ \E kind \in {"patch", "finalize"}, new \in RaceStatuses, email \in ImageUsers,
          signer \in {"k1"} :
          /\ db' = [db EXCEPT !.reqs[r] = [pc |-> "start", kind |-> kind, new |-> new,
                                           email |-> email, signer |-> signer,
                                           seen |-> <<>>]]
    /\ UNCHANGED <<settings, api_keys, now, conn, hm, kv, gc>>

\* update_ml_analysis_status up to the row it is given under the lock
RcLockedRead(r) ==
    /\ db.phase = "race"
    /\ \/ db.reqs[r].pc = "start" /\ db.reqs[r].kind = "patch"
       \/ db.reqs[r].pc = "fallback"
    /\ db.lock = {}
    /\ db' = [db EXCEPT !.lock = {r},
                        !.reqs[r].pc = "locked",
                        !.reqs[r].seen = get_ml_analysis(db.analyses, "a1")]
    /\ UNCHANGED <<settings, api_keys, now, conn, hm, kv, gc>>

\* update_ml_analysis_status from the access check to its commit or raise
RcUpdate(r) ==
    /\ db.phase = "race"
    /\ db.reqs[r].pc = "locked"
    /\ LET req == db.reqs[r]
           res == update_ml_analysis_status([a \in {"a1"} |-> req.seen[1]], db.images,
                                            gc.cache, "a1", req.new, None, req.email)
           applied == res.status = 200 /\ res.images["a1"] # req.seen[1]
       IN  /\ gc' = [gc EXCEPT !.cache = res.cache]
           /\ db' = [db EXCEPT
                        !.lock = {},
                        !.analyses["a1"] = Flush(@, req.seen[1], res.images["a1"]),
                        !.reqs[r] = IdleRequest,
                        !.op = RaceOp(req, res.status, applied)]
    /\ UNCHANGED <<settings, api_keys, now, conn, hm, kv>>

\* finalize_analysis up to the row crud.get_ml_analysis gives it
RcRead(r) ==
    /\ db.phase = "race"
    /\ db.reqs[r].pc = "start" /\ db.reqs[r].kind = "finalize"
    /\ db' = [db EXCEPT !.reqs[r].pc = "read",
                        !.reqs[r].seen = get_ml_analysis(db.analyses, "a1")]
    /\ UNCHANGED <<settings, api_keys, now, conn, hm, kv, gc>>

\* finalize_analysis from the access check to the commit of its fast path,
\* to its raise, or to its call of update_ml_analysis_status
RcFinalize(r) ==
    /\ db.phase = "race"
    /\ db.reqs[r].pc = "read"
    /\ LET req    == db.reqs[r]
           access == get_image_or_403(db.images, gc.cache, req.seen[1].image_id, req.email)
           hmac   == verify_pipeline_hmac(FinalizeRequest(req.signer)).status
           res    == finalize_analysis([a \in {"a1"} |-> req.seen[1]], db.images,
                                       gc.cache, "a1", req.new, None, req.email,
                                       req.signer)
       IN  /\ gc' = [gc EXCEPT !.cache = access.cache]
           /\ IF access.status # 200 \/ hmac # 200
              THEN db' = [db EXCEPT !.reqs[r] = IdleRequest,
                                    !.op = RaceOp(req, res.status, FALSE)]
              ELSE IF FinalizesDirectly(req.seen[1], req.new)
              THEN /\ db.lock = {}
                   /\ db' = [db EXCEPT
                                !.analyses["a1"] = Flush(@, req.seen[1], res.images["a1"]),
                                !.reqs[r] = IdleRequest,
                                !.op = RaceOp(req, res.status, TRUE)]
              ELSE db' = [db EXCEPT !.reqs[r].pc = "fallback"]
    /\ UNCHANGED <<settings, api_keys, now, conn, hm, kv>>

RcInit ==
    /\ settings \in {s \in CacheSettings : ~s.DEBUG /\ ~s.SKIP_HEADER_CHECK}
    /\ now = Now0
    /\ gc = [phase |-> "on", cache |-> EmptyCache,
             directory |-> {<<"user2@example.com", "g1">>}, op |-> NoOp]
    /\ db = [phase |-> "race", images |-> [i \in {"i1"} |-> Image0],
             analyses |-> [a \in {"a1"} |-> Analysis0], lock |-> {},
             reqs |-> [r \in RaceRequests |-> IdleRequest], op |-> NoRaceOp]
    /\ api_keys = <<>> /\ conn = [phase |-> "idle"]
    /\ hm = [phase |-> "off"] /\ kv = [phase |-> "off"]

RcNext ==
    \E r \in RaceRequests :
        RcBegin(r) \/ RcLockedRead(r) \/ RcUpdate(r) \/ RcRead(r) \/ RcFinalize(r)

SpecRace == RcInit /\ [][RcNext]_vars

(***************************************************************************)
(* SpecLoop: requests in flight on the event loop, sharing                 *)
(* _group_membership_cache.  Every caller of the cache functions is a      *)
(* coroutine (async def); the functions themselves are plain def and       *)
(* contain no await, and nothing starts a thread.  A task is at pc         *)
(* "await" while its handler waits for the database, and walks the         *)
(* statements of the function it calls once the loop resumes it.  A        *)
(* KeyError of a dict read or del leaves the task at pc "failed".          *)
(***************************************************************************)
Tasks == {1, 2}

TaskEmails == {"user1@example.com", "user2@example.com"}

\* the loop switches to another task only where the running one awaits
Preempts_EveryStatement(pc) == TRUE

Preempts(pc) == pc \in {"idle", "await", "failed"}

CanRun(r) == \A o \in Tasks \ {r} : Preempts(gc.tasks[o].pc)

IdleTask ==
    [pc |-> "idle", kind |-> "none", email |-> "", group |-> "", key |-> <<>>,
     current_time |-> 0, is_member |-> FALSE, path |-> "none", todo |-> {}]

NoLast == [kind |-> "none", email |-> "", path |-> "none", in_flight |-> {}]

\* a request arrives and its handler awaits the database
TkBegin(r) ==
    /\ gc.phase = "loop"
    /\ gc.tasks[r].pc = "idle"
    /\ \E kind \in {"lookup", "clear_user", "clear_all"}, email \in TaskEmails :
          gc' = [gc EXCEPT !.tasks[r] = [IdleTask EXCEPT !.pc = "await", !.kind = kind,
                                                         !.email = email, !.group = "g1"]]
    /\ UNCHANGED <<settings, api_keys, now, conn, hm, kv, db>>

\* the loop resumes the handler, which calls the cache function: lines 31-41
\* of is_user_in_group, or the entry of clear_cache or clear_user_cache
TkResume(r) ==
    /\ gc.phase = "loop"
    /\ gc.tasks[r].pc = "await" /\ CanRun(r)
    /\ LET t == gc.tasks[r]
       IN  gc' = [gc EXCEPT !.tasks[r] =
                     IF t.kind = "lookup"
                     THEN IF t.email = "" \/ t.group = ""
                          THEN [t EXCEPT !.pc = "return", !.path = "empty"]
                          ELSE [t EXCEPT !.pc = "test",
                                         !.key = <<CacheKey(t.email, t.group)>>,
                                         !.current_time = now]
                     ELSE IF t.kind = "clear_all" THEN [t EXCEPT !.pc = "clear"]
                     ELSE IF t.email = "" THEN [t EXCEPT !.pc = "return"]
                     ELSE [t EXCEPT !.pc = "collect"]]
    /\ UNCHANGED <<settings, api_keys, now, conn, hm, kv, db>>

\* if cache_key in _group_membership_cache
TkTest(r) ==
    /\ gc.phase = "loop"
    /\ gc.tasks[r].pc = "test" /\ CanRun(r)
    /\ gc' = [gc EXCEPT !.tasks[r].pc =
                 IF gc.tasks[r].key[1] \in DOMAIN gc.cache THEN "read" ELSE "core"]
    /\ UNCHANGED <<settings, api_keys, now, conn, hm, kv, db>>

\* is_member, cached_time = _group_membership_cache[cache_key], and the
\* comparison with _CACHE_TTL
TkRead(r) ==
    /\ gc.phase = "loop"
    /\ gc.tasks[r].pc = "read" /\ CanRun(r)
    /\ LET t == gc.tasks[r]
       IN  gc' = [gc EXCEPT !.tasks[r] =
                     IF t.key[1] \notin DOMAIN gc.cache THEN [t EXCEPT !.pc = "failed"]
                     ELSE IF Fresh(t.current_time, gc.cache[t.key[1]].cached_time)
                     THEN [t EXCEPT !.pc = "return", !.path = "hit",
                                    !.is_member = gc.cache[t.key[1]].is_member]
                     ELSE [t EXCEPT !.pc = "evict"]]
    /\ UNCHANGED <<settings, api_keys, now, conn, hm, kv, db>>

\* del _group_membership_cache[cache_key]
TkEvict(r) ==
    /\ gc.phase = "loop"
    /\ gc.tasks[r].pc = "evict" /\ CanRun(r)
    /\ LET t == gc.tasks[r]
       IN  IF t.key[1] \notin DOMAIN gc.cache
           THEN gc' = [gc EXCEPT !.tasks[r].pc = "failed"]
           ELSE gc' = [gc EXCEPT !.cache = CacheDel(gc.cache, {t.key[1]}),
                                 !.tasks[r].pc = "core", !.tasks[r].path = "expired"]
    /\ UNCHANGED <<settings, api_keys, now, conn, hm, kv, db>>

\* is_member = _core_is_user_in_group(user_email, group_id)
TkCore(r) ==
    /\ gc.phase = "loop"
    /\ gc.tasks[r].pc = "core" /\ CanRun(r)
    /\ LET t == gc.tasks[r]
       IN  gc' = [gc EXCEPT !.tasks[r] =
                     [t EXCEPT !.pc = "store",
                               !.path = IF t.path = "expired" THEN "expired" ELSE "miss",
                               !.is_member = core_is_user_in_group(t.key[1][1],
                                                                   t.key[1][2]).result]]
    /\ UNCHANGED <<settings, api_keys, now, conn, hm, kv, db>>

\* _group_membership_cache[cache_key] = (is_member, current_time)
TkStore(r) ==
    /\ gc.phase = "loop"
    /\ gc.tasks[r].pc = "store" /\ CanRun(r)
    /\ LET t == gc.tasks[r]
       IN  gc' = [gc EXCEPT !.cache = CachePut(gc.cache, t.key[1],
                                               [is_member |-> t.is_member,
                                                cached_time |-> t.current_time]),
                            !.tasks[r].pc = "return"]
    /\ UNCHANGED <<settings, api_keys, now, conn, hm, kv, db>>

\* clear_cache: _group_membership_cache.clear()
TkClear(r) ==
    /\ gc.phase = "loop"
    /\ gc.tasks[r].pc = "clear" /\ CanRun(r)
    /\ gc' = [gc EXCEPT !.cache = EmptyCache, !.tasks[r].pc = "return"]
    /\ UNCHANGED <<settings, api_keys, now, conn, hm, kv, db>>

\* clear_user_cache: keys_to_remove = [key for key in ... if key[0] == user_email]
TkCollect(r) ==
    /\ gc.phase = "loop"
    /\ gc.tasks[r].pc = "collect" /\ CanRun(r)
    /\ gc' = [gc EXCEPT !.tasks[r].pc = "remove",
                        !.tasks[r].todo = {k \in DOMAIN gc.cache :
                                              k[1] = Strip(Lower(gc.tasks[r].email))}]
    /\ UNCHANGED <<settings, api_keys, now, conn, hm, kv, db>>

\* clear_user_cache: one round of the loop, del _group_membership_cache[key]
TkRemove(r) ==
    /\ gc.phase = "loop"
    /\ gc.tasks[r].pc = "remove" /\ CanRun(r)
    /\ IF gc.tasks[r].todo = {}
       THEN gc' = [gc EXCEPT !.tasks[r].pc = "return"]
       ELSE \E k \in gc.tasks[r].todo :
               IF k \notin DOMAIN gc.cache
               THEN gc' = [gc EXCEPT !.tasks[r].pc = "failed"]
               ELSE gc' = [gc EXCEPT !.cache = CacheDel(gc.cache, {k}),
                                     !.tasks[r].todo = @ \ {k}]
    /\ UNCHANGED <<settings, api_keys, now, conn, hm, kv, db>>

\* the function returns and the handler goes on to its response
TkReturn(r) ==
    /\ gc.phase = "loop"
    /\ gc.tasks[r].pc = "return" /\ CanRun(r)
    /\ gc' = [gc EXCEPT
                 !.tasks[r] = IdleTask,
                 !.last = [kind |-> gc.tasks[r].kind, email |-> gc.tasks[r].email,
                           path |-> gc.tasks[r].path,
                           in_flight |-> {gc.tasks[o].kind : o \in Tasks \ {r}}]]
    /\ UNCHANGED <<settings, api_keys, now, conn, hm, kv, db>>

\* time passes
TkTick ==
    /\ gc.phase = "loop"
    /\ now = Now0
    /\ now' = Now0 + CacheTTL
    /\ UNCHANGED <<settings, api_keys, conn, hm, kv, gc, db>>

TkInit ==
    /\ settings \in {s \in CacheSettings : ~s.SKIP_HEADER_CHECK}
    /\ now = Now0
    /\ gc = [phase |-> "loop", cache |-> EmptyCache,
             directory |-> {<<"user2@example.com", "g1">>},
             tasks |-> [r \in Tasks |-> IdleTask], last |-> NoLast]
    /\ api_keys = <<>> /\ conn = [phase |-> "idle"]
    /\ hm = [phase |-> "off"] /\ kv = [phase |-> "off"]
    /\ db = [phase |-> "off"]

TkNext ==
    \/ TkTick
    \/ \E r \in Tasks :
          \/ TkBegin(r) \/ TkResume(r) \/ TkTest(r) \/ TkRead(r) \/ TkEvict(r)
          \/ TkCore(r) \/ TkStore(r) \/ TkClear(r) \/ TkCollect(r) \/ TkRemove(r)
          \/ TkReturn(r)

SpecLoop == TkInit /\ [][TkNext]_vars

(***************************************************************************)
(* Claims about the three authentication modes (checked under Spec).       *)
(***************************************************************************)
Done == conn.phase = "done"

UnderPrefix(prefix) == Head(conn.req.path) = prefix

\* the request's bearer token is the raw key of an active row of the table
ValidKey ==
    \E i \in 1..Len(api_keys) : api_keys[i].is_active /\ KeyPool[i].raw = conn.req.bearer

NoHmacHeadersSent == conn.req.timestamp = <<>> /\ conn.req.signature = <<>>

\* the request carries a signature made with `secret` over its timestamp and
\* raw body, and the timestamp is at most `window` seconds from now
ValidSignature(secret, window) ==
    /\ conn.req.timestamp # <<>>
    /\ conn.req.signature # <<>>
    /\ conn.req.signature[1] = SignatureHeader(secret, conn.req.timestamp[1], conn.req.body)
    /\ IsDigit(conn.req.timestamp[1])
    /\ Abs(now - ParseInt(conn.req.timestamp[1])) <= window

HmacEnforced ==
    settings.ML_PIPELINE_REQUIRE_HMAC /\ settings.ML_CALLBACK_HMAC_SECRET # None

ConfiguredSignature ==
    ValidSignature(settings.ML_CALLBACK_HMAC_SECRET, settings.ML_HMAC_TIMESTAMP_SKEW_SECONDS)

CexC3 ==
    (Done /\ UnderPrefix("api") /\ ~ExemptPath(conn.req.path) /\ conn.resp.reached) =>
        conn.resp.user = conn.resp.state_user_email

CexC5 ==
    (Done /\ conn.resp.dep_check = "skipped") =>
        \E i \in 1..Len(conn.resp.log) : conn.resp.log[i].by = "require_hmac_auth"

\* C6 as stated: under /api-ml, with HMAC required and no secret configured,
\* every request gets 500, never 401, and none reaches domain logic.
CexC6 ==
    (/\ Done /\ UnderPrefix("api-ml")
     /\ settings.ML_PIPELINE_REQUIRE_HMAC /\ settings.ML_CALLBACK_HMAC_SECRET = None) =>
        (conn.resp.status = 500 /\ ~conn.resp.reached)

\* C6 amended: under /api-ml, with HMAC required and no secret configured, no
\* request reaches domain logic; one with a bearer token of an active API key
\* gets 500 whatever its signature headers, one without gets 401.
ThmC6 ==
    (/\ Done /\ UnderPrefix("api-ml")
     /\ settings.ML_PIPELINE_REQUIRE_HMAC /\ settings.ML_CALLBACK_HMAC_SECRET = None) =>
        /\ ~conn.resp.reached
        /\ ValidKey => (conn.resp.status = 500 /\ conn.resp.dep_check = "misconfigured")
        /\ ~ValidKey => conn.resp.status = 401

WitC6 ==
    /\ Done /\ UnderPrefix("api-ml")
    /\ settings.ML_PIPELINE_REQUIRE_HMAC /\ settings.ML_CALLBACK_HMAC_SECRET = None
    /\ ValidKey /\ ValidSignature("k1", DefaultSkewSeconds)
    /\ conn.resp.status = 500

\* C8 as stated: a pipeline callback under /api-ml with an active API key and
\* a correct signature whose timestamp is within the configured
\* ML_HMAC_TIMESTAMP_SKEW_SECONDS passes every HMAC check made on the request.
CexC8 ==
    (/\ Done /\ UnderPrefix("api-ml") /\ IsCallback(conn.req.path)
     /\ HmacEnforced /\ ValidKey /\ ConfiguredSignature) =>
        /\ conn.resp.dep_check = "passed"
        /\ conn.resp.handler_check = "passed"
        /\ conn.resp.reached

\* the HMAC headers as require_hmac_auth reads them
TimestampRead == HeaderOr(conn.req.timestamp, <<"0">>)

SignatureRead == HeaderOr(conn.req.signature, <<>>)

UnparseableTimestamp == ~IsDigit(TimestampRead) /\ ~IsIsoShape(TimestampRead)

WrongPrefix == ~StartsWith(SignatureRead, Sha256Prefix)

\* C11: for an unparseable timestamp, a signature header that does not start
\* with "sha256=", and absent headers (read as "" and "0"), both verifiers
\* return false and raise nothing, and an /api-ml request with an active API
\* key is answered 401.
ThmC11 ==
    (/\ Done /\ UnderPrefix("api-ml") /\ HmacEnforced /\ ValidKey
     /\ UnparseableTimestamp \/ WrongPrefix \/ NoHmacHeadersSent) =>
        /\ ~verify_hmac_signature(settings.ML_CALLBACK_HMAC_SECRET, conn.req.body,
               TimestampRead, SignatureRead, settings.ML_HMAC_TIMESTAMP_SKEW_SECONDS)
        /\ ~verify_hmac_signature_raises(settings.ML_CALLBACK_HMAC_SECRET, conn.req.body,
               TimestampRead, SignatureRead, settings.ML_HMAC_TIMESTAMP_SKEW_SECONDS)
        /\ ~verify_hmac_signature_flexible(settings.ML_CALLBACK_HMAC_SECRET, conn.req.body,
               TimestampRead, SignatureRead, settings.ML_HMAC_TIMESTAMP_SKEW_SECONDS)
        /\ ~verify_hmac_signature_flexible_raises(settings.ML_CALLBACK_HMAC_SECRET, conn.req.body,
               TimestampRead, SignatureRead, settings.ML_HMAC_TIMESTAMP_SKEW_SECONDS)
        /\ conn.resp.status = 401
        /\ conn.resp.dep_check = "failed"

WitC11 ==
    /\ Done /\ UnderPrefix("api-ml") /\ HmacEnforced /\ ValidKey
    /\ UnparseableTimestamp /\ ~WrongPrefix
    /\ conn.resp.status = 401

\* the active rows whose raw key is the request's bearer token
MatchingRows ==
    {i \in 1..Len(api_keys) : api_keys[i].is_active /\ KeyPool[i].raw = conn.req.bearer}

\* the request got past the middleware to a route with dependencies
Dispatched == auth_middleware(conn.req).forward /\ ~ExemptPath(conn.req.path)

\* C14: get_user_from_api_key returns the owner of the first active
\* credential whose hash verifies the bearer token, and no identity, not an
\* error, without a match, with no active credential or with no token; a
\* token that matches no active key gets 401 under /api-key and /api-ml.
ThmC14 ==
    (Done /\ Dispatched) =>
        /\ MatchingRows # {} =>
              conn.resp.api_user =
                  api_keys[CHOOSE i \in MatchingRows : \A j \in MatchingRows : i <= j].user
        /\ MatchingRows = {} =>
              /\ conn.resp.api_user = None
              /\ UnderPrefix("api-key") \/ UnderPrefix("api-ml") => conn.resp.status = 401
              /\ (UnderPrefix("api") /\ ~IsCallback(conn.req.path)) =>
                    (conn.resp.reached /\ conn.resp.user = conn.resp.state_user_email)

WitC14 ==
    /\ Done /\ UnderPrefix("api-key")
    /\ Len(api_keys) = 2 /\ api_keys[1].is_active /\ api_keys[2].is_active
    /\ conn.req.bearer = "key-2"
    /\ conn.resp.api_user = "alice@example.com" /\ conn.resp.reached

\* the request's bearer token is the raw key of a deactivated row
RevokedKey ==
    \E i \in 1..Len(api_keys) : ~api_keys[i].is_active /\ KeyPool[i].raw = conn.req.bearer

\* every row stays in the table as it was issued, and a deactivated row
\* stays deactivated
RowsKept ==
    \A i \in 1..Len(api_keys) :
        /\ Len(api_keys') >= i
        /\ api_keys'[i].id = api_keys[i].id
        /\ api_keys'[i].user = api_keys[i].user
        /\ api_keys'[i].key_hash = api_keys[i].key_hash
        /\ ~api_keys[i].is_active => ~api_keys'[i].is_active

\* C15: a deactivated credential is excluded from every later lookup, so its
\* raw key never authenticates again, while its row is kept with
\* is_active = false and is never deleted.
ThmC15 ==
    /\ []((Done /\ Dispatched /\ RevokedKey) =>
            /\ conn.resp.api_user = None
            /\ UnderPrefix("api-key") \/ UnderPrefix("api-ml") => conn.resp.status = 401)
    /\ [][RowsKept]_vars

WitC15 ==
    /\ Done /\ UnderPrefix("api-key") /\ RevokedKey
    /\ conn.req.bearer = "key-1" /\ api_keys[1].last_used_at # <<>>
    /\ conn.resp.status = 401

\* C16 as stated: whenever the bearer token matches an active credential,
\* get_user_from_api_key returns the owner's identity, whether or not the
\* update of last_used_at succeeds.
CexC16 ==
    (Done /\ Dispatched /\ MatchingRows # {}) =>
        conn.resp.api_user =
            api_keys[CHOOSE i \in MatchingRows : \A j \in MatchingRows : i <= j].user

\* the request is one the header-mode middleware authenticates itself
HeaderModePath == UnderPrefix("api") /\ ~ExemptPath(conn.req.path)

SecretConfigured == settings.PROXY_SHARED_SECRET # None

\* the value the identity header of the request validates to, or None
HeaderIdentity == get_user_from_header(conn.req.user_header)

\* C26: in production (non-bypass) header mode with a shared secret
\* configured, a request whose shared-secret header is absent or not equal
\* to the configured value is answered 401 by the proxy check and is not
\* forwarded to the handler, whatever its identity header contains.
ThmC26 ==
    (/\ Done /\ HeaderModePath /\ ~DebugMode /\ SecretConfigured
     /\ conn.req.proxy_secret # settings.PROXY_SHARED_SECRET)
        => /\ conn.resp.status = 401
           /\ ~conn.resp.reached
           /\ conn.resp.user = None
           /\ conn.resp.log =
                 <<LogEvent("warning", "auth_middleware", "Invalid or missing proxy secret")>>

\* a wrong secret next to a valid identity header and a valid API key: 401
WitC26 ==
    /\ Done /\ HeaderModePath /\ ~DebugMode /\ SecretConfigured
    /\ conn.req.proxy_secret = "wrong"
    /\ HeaderIdentity = "alice@example.com"
    /\ ValidKey
    /\ conn.resp.status = 401 /\ ~conn.resp.reached

\* CexC27: C27 as stated: in header mode, with a shared secret configured,
\* a request without the shared-secret header is answered 401 whether or
\* not the debug/bypass configuration is active.
CexC27 ==
    (Done /\ HeaderModePath /\ SecretConfigured /\ conn.req.proxy_secret = None)
        => conn.resp.status = 401

\* C27: in header mode, with a shared secret configured, a request without
\* the shared-secret header is answered 401 in production; in the
\* debug/bypass configuration the shared-secret header is not examined: the
\* middleware forwards the request, authenticated as its header identity or
\* as the mock identity.
ThmC27 ==
    (Done /\ HeaderModePath /\ SecretConfigured /\ conn.req.proxy_secret = None)
        => /\ ~DebugMode => (conn.resp.status = 401 /\ ~conn.resp.reached)
           /\ DebugMode => /\ auth_middleware(conn.req).forward
                           /\ conn.resp.state_user_email \in {HeaderIdentity, MockUserEmail}
                           /\ conn.resp.state_user_email # None
                           /\ auth_middleware(conn.req).log = <<>>

\* in debug mode a request without the shared-secret header, to a server
\* with a shared secret configured, reaches the handler as the header identity
WitC27 ==
    /\ Done /\ HeaderModePath /\ SecretConfigured /\ conn.req.proxy_secret = None
    /\ DebugMode /\ conn.req.bearer = None
    /\ conn.resp.reached /\ conn.resp.status = 200
    /\ conn.resp.user = "alice@example.com"

\* the identity header of the request is absent or fails the email pattern
NoHeaderIdentity ==
    conn.req.user_header = None \/ ~MatchesEmailPattern(StripLower(conn.req.user_header))

\* C28: in production header mode with no shared secret configured, a
\* request with a valid identity header is authenticated as that identity,
\* and a request whose identity header is absent or invalid is answered 500
\* (server misconfiguration), never 401, and is not forwarded to the handler.
ThmC28 ==
    (Done /\ HeaderModePath /\ ~DebugMode /\ ~SecretConfigured)
        => /\ ~NoHeaderIdentity
                 => /\ auth_middleware(conn.req).forward
                    /\ conn.resp.state_user_email = StripLower(conn.req.user_header)
                    /\ (conn.req.bearer = None /\ ~IsCallback(conn.req.path))
                          => /\ conn.resp.reached
                             /\ conn.resp.user = StripLower(conn.req.user_header)
           /\ NoHeaderIdentity
                 => /\ conn.resp.status = 500
                    /\ ~conn.resp.reached
                    /\ conn.resp.user = None

\* a request whose identity header is not an email address, to a production
\* server without a shared secret, is answered 500 although it carries a
\* valid API key
WitC28 ==
    /\ Done /\ HeaderModePath /\ ~DebugMode /\ ~SecretConfigured
    /\ conn.req.user_header = "not-an-email" /\ ValidKey
    /\ conn.resp.status = 500 /\ ~conn.resp.reached

WitC29Production ==
    /\ Done /\ HeaderModePath /\ ~DebugMode /\ SecretConfigured
    /\ conn.req.proxy_secret = settings.PROXY_SHARED_SECRET
    /\ conn.req.user_header = None
    /\ conn.resp.status = 401 /\ ~conn.resp.reached

\* the request goes to the health check, the OpenAPI schema or the
\* documentation
OpenPath == conn.req.path \in {<<"api", "health">>, <<"openapi.json">>, <<"docs">>}

\* C31: requests to the health-check, OpenAPI-schema and documentation paths
\* are forwarded to their handler without any credential check in every
\* configuration: whatever proxy secret, identity header or bearer token
\* they carry or lack, the middleware does not reject them and they are
\* answered by the handler.
ThmC31 ==
    (Done /\ OpenPath)
        => /\ auth_middleware(conn.req).forward
           /\ conn.resp.reached
           /\ conn.resp.status = 200
           /\ conn.resp.dep_check = "none" /\ conn.resp.handler_check = "none"

\* a production server with a shared secret and required HMAC answers a
\* health check that carries no header at all
WitC31 ==
    /\ Done /\ conn.req.path = <<"api", "health">>
    /\ ~DebugMode /\ SecretConfigured /\ settings.ML_PIPELINE_REQUIRE_HMAC
    /\ conn.req.proxy_secret = None /\ conn.req.user_header = None
    /\ conn.req.bearer = None /\ NoHmacHeadersSent
    /\ conn.resp.reached /\ conn.resp.status = 200

(***************************************************************************)
(* Claims about request.state (checked under SpecState).                   *)
(***************************************************************************)
\* C30: group membership is never taken from request headers.  After the
\* header-mode middleware has let a production request through, the request
\* state carries no user_groups attribute, even when the request has a
\* groups header or the attribute was set before; in debug mode the
\* middleware sets user_groups to nothing other than an empty list; and in
\* no mode does it set the attribute to a value of its own making.
ThmC30 ==
    Done =>
        /\ (HeaderModePath /\ ~DebugMode /\ conn.forward) => conn.state.user_groups = <<>>
        /\ (HeaderModePath /\ DebugMode)
              => conn.state.user_groups \in {conn.state_before.user_groups, << <<>> >>}
        /\ conn.state.user_groups # conn.state_before.user_groups
              => conn.state.user_groups \in {<<>>, << <<>> >>}

\* a production request with a groups header, on a state whose user_groups
\* was set before, is forwarded with the attribute removed
WitC30 ==
    /\ Done /\ HeaderModePath /\ ~DebugMode /\ conn.forward
    /\ conn.groups_header = <<HeaderGroups>>
    /\ conn.state_before.user_groups = <<HeaderGroups>>
    /\ conn.state.user_groups = <<>>
    /\ conn.state.user_email = <<"alice@example.com">>

\* the request with its identity header removed
WithoutIdentity == [conn.req EXCEPT !.user_header = None]

\* the identity header is sent and is no email address
InvalidIdentity ==
    /\ conn.req.user_header # None
    /\ conn.req.user_header \notin {"alice@example.com", " Alice@Example.COM "}

WitC34Invalid ==
    /\ Done /\ HeaderModePath /\ DebugMode /\ conn.req.user_header = "not-an-email"
    /\ conn.state.user_email = <<MockUserEmail>>

(***************************************************************************)
(* Claims about the membership cache (checked under SpecCache).            *)
(***************************************************************************)
LookupDone == gc.phase = "on" /\ gc.op.kind = "lookup"

\* the cache key of the last lookup
OpKey == <<Strip(Lower(gc.op.email)), Strip(gc.op.group), DebugMode>>

\* the age, at the lookup, of the entry the lookup found under its key
OpAge == now - gc.op.before[OpKey].cached_time

\* C17: a lookup made while the cache holds, under the same (email, group,
\* bypass-flag) key, an entry younger than the TTL (now - recorded_at < 300)
\* returns the stored value, does not call the underlying membership check,
\* and leaves the cache as it was.
ThmC17 ==
    (LookupDone /\ OpKey \in DOMAIN gc.op.before /\ OpAge < CacheTTL)
        => /\ gc.op.result = gc.op.before[OpKey].is_member
           /\ gc.op.core_calls = 0
           /\ gc.op.plug_calls = 0
           /\ gc.cache = gc.op.before

\* a lookup 299 s after the entry was recorded answers TRUE from the cache
\* although the directory has revoked the membership since
WitC17 ==
    /\ LookupDone /\ ~DebugMode
    /\ OpKey \in DOMAIN gc.op.before /\ OpAge = CacheTTL - 1
    /\ gc.op.result /\ gc.op.core_calls = 0
    /\ ~check_group_membership(OpKey[1], OpKey[2])

\* the arguments of the last call pass the emptiness test of the wrapper
OpArgsGiven == gc.op.email # "" /\ gc.op.group # ""

\* C18: a lookup never answers from an entry whose age has reached the TTL
\* (now - recorded_at >= 300): the expired entry is evicted, the underlying
\* check is called again, and its result is stored under the key with
\* recorded_at = now and returned; the other entries are left alone.
ThmC18 ==
    (LookupDone /\ OpArgsGiven /\ OpKey \in DOMAIN gc.op.before /\ OpAge >= CacheTTL)
        => /\ gc.op.path = "expired"
           /\ gc.op.core_calls = 1
           /\ gc.op.result = core_is_user_in_group(OpKey[1], OpKey[2]).result
           /\ gc.cache = CachePut(gc.op.before, OpKey,
                                  [is_member |-> gc.op.result, cached_time |-> now])

\* a lookup exactly 300 s after the entry was recorded asks the directory
\* again and returns an answer different from the stored one
WitC18 ==
    /\ LookupDone /\ OpArgsGiven /\ ~DebugMode
    /\ OpKey \in DOMAIN gc.op.before /\ OpAge = CacheTTL
    /\ gc.op.core_calls = 1 /\ gc.op.plug_calls = 1
    /\ gc.op.result # gc.op.before[OpKey].is_member
    /\ gc.cache[OpKey] = [is_member |-> gc.op.result, cached_time |-> now]

\* clear_user_cache was the last call, with an argument that passes its
\* emptiness test
ClearDone == gc.phase = "on" /\ gc.op.kind = "clear_user" /\ gc.op.email # ""

\* the normalized argument of the last call
OpEmail == Strip(Lower(gc.op.email))

\* the entries of the cleared user are gone and the others are as they were
ClearedOnlyUser ==
    /\ \A k \in DOMAIN gc.op.before : k[1] = OpEmail => k \notin DOMAIN gc.cache
    /\ \A k \in DOMAIN gc.op.before :
          k[1] # OpEmail => k \in DOMAIN gc.cache /\ gc.cache[k] = gc.op.before[k]
    /\ DOMAIN gc.cache \subseteq DOMAIN gc.op.before

\* the lookup that follows a clear: the cleared user's goes to the underlying
\* check, another user's with a fresh entry is answered from the cache
LookupAfterClear ==
    (ClearDone /\ gc'.op.kind = "lookup" /\ gc'.op.email # "" /\ gc'.op.group # "")
        => LET key == <<Strip(Lower(gc'.op.email)), Strip(gc'.op.group), DebugMode>>
           IN  /\ key[1] = OpEmail => gc'.op.core_calls = 1
               /\ (/\ key[1] # OpEmail
                   /\ key \in DOMAIN gc.op.before
                   /\ now - gc.op.before[key].cached_time < CacheTTL)
                      => /\ gc'.op.core_calls = 0
                         /\ gc'.op.result = gc.op.before[key].is_member

\* C19: clear_user_cache(email) removes every entry whose email equals the
\* trimmed, lowercased argument, for all groups and both values of the
\* bypass flag, and leaves every other user's entries unchanged; the next
\* lookup for the cleared user calls the underlying check again while the
\* other users' lookups remain cache hits.
ThmC19 ==
    /\ [](ClearDone => ClearedOnlyUser)
    /\ [][LookupAfterClear]_vars

\* a clear with an argument in capitals and padded with blanks removes the
\* user's entries for two groups and for both values of the bypass flag, and
\* keeps the entry of another user
WitC19 ==
    /\ ClearDone /\ gc.op.email = " User1@Example.COM "
    /\ {<<"user1@example.com", "g1", TRUE>>, <<"user1@example.com", "g1", FALSE>>,
        <<"user1@example.com", "g2", DebugMode>>} \subseteq DOMAIN gc.op.before
    /\ DOMAIN gc.cache = {<<"user2@example.com", "g1", DebugMode>>}

CexC21 == (LookupDone /\ DebugMode) => gc.cache = gc.op.before

\* the entries recorded with the other value of the bypass flag
OtherModeKeys(cache) == {k \in DOMAIN cache : k[3] # DebugMode}

\* C21: in the debug/bypass configuration a lookup reads and writes no entry
\* other than the one under its own (email, group, TRUE) key: every entry
\* recorded with the flag FALSE is the same before and after the call, and
\* a call that changes the cache changes it by storing its result with
\* recorded_at = now under that key.
ThmC21 ==
    (LookupDone /\ DebugMode)
        => /\ OtherModeKeys(gc.cache) = OtherModeKeys(gc.op.before)
           /\ \A k \in OtherModeKeys(gc.cache) : gc.cache[k] = gc.op.before[k]
           /\ \/ gc.cache = gc.op.before
              \/ gc.cache = CachePut(gc.op.before, OpKey,
                                     [is_member |-> gc.op.result, cached_time |-> now])

\* in debug mode a first lookup for a user stores TRUE under the key with
\* the flag TRUE, next to an entry for the same user and group recorded
\* with the flag FALSE
WitC21 ==
    /\ LookupDone /\ DebugMode /\ gc.op.path = "miss" /\ gc.op.result
    /\ OpKey = <<"user1@example.com", "g1", TRUE>>
    /\ OpKey \notin DOMAIN gc.op.before /\ OpKey \in DOMAIN gc.cache
    /\ <<"user1@example.com", "g1", FALSE>> \in DOMAIN gc.cache

\* CexC22: C22 as stated: a lookup whose email or group id is empty, as
\* given or after trimming, returns FALSE without calling the underlying
\* check and leaves the cache as it was.
CexC22 ==
    (LookupDone /\ (OpKey[1] = "" \/ OpKey[2] = ""))
        => /\ ~gc.op.result
           /\ gc.op.core_calls = 0
           /\ gc.cache = gc.op.before

\* C23: cache entries are never mixed across modes.  Whatever lookups and
\* configuration changes came before, every stored entry lies under a key
\* whose flag is the value the bypass flag had when the entry was recorded,
\* and a cache hit returns an entry recorded under the flag value in force
\* at the lookup: a result recorded while bypass was active is not returned
\* while it is inactive, nor the other way round.
ThmC23 ==
    gc.phase = "on"
        => /\ \A k \in DOMAIN gc.cache : gc.recorded[k] = k[3]
           /\ (gc.op.kind = "lookup" /\ gc.op.path = "hit")
                 => \E k \in DOMAIN gc.cache :
                       /\ k[1] = OpKey[1] /\ k[2] = OpKey[2]
                       /\ gc.recorded[k] = DebugMode
                       /\ gc.cache[k].is_member = gc.op.result

\* in production a lookup is answered FALSE from an entry of its own mode
\* while the cache holds, for the same user and group, a fresh TRUE that
\* was recorded while bypass was active
WitC23 ==
    /\ LookupDone /\ ~DebugMode /\ gc.op.path = "hit" /\ ~gc.op.result
    /\ OpKey = <<"user1@example.com", "g1", FALSE>>
    /\ <<"user1@example.com", "g1", TRUE>> \in DOMAIN gc.cache
    /\ gc.cache[<<"user1@example.com", "g1", TRUE>>].is_member
    /\ now - gc.cache[<<"user1@example.com", "g1", TRUE>>].cached_time < CacheTTL

\* the answer of a single lookup for the user of the last composite call,
\* on the cache that call found
CallMember(group_id) == is_user_in_group(gc.call.before, gc.call.email, group_id).result

\* the positions of the listed groups the user is, or is not, a member of
MemberAt == {i \in 1..Len(gc.call.groups) : CallMember(gc.call.groups[i])}

NonMemberAt == {i \in 1..Len(gc.call.groups) : ~CallMember(gc.call.groups[i])}

\* the smallest element of a non-empty set of positions
First(S) == CHOOSE i \in S : \A j \in S : i <= j

\* C24: is_user_in_any_group returns TRUE iff the user is a member of at
\* least one listed group and makes no lookup after the first member group;
\* is_user_in_all_groups returns TRUE iff the list is non-empty and the user
\* is a member of every listed group, and makes no lookup after the first
\* non-member group; both return FALSE for an empty list.
ThmC24 ==
    /\ (gc.phase = "on" /\ gc.op.kind = "any")
          => /\ gc.call.result <=> MemberAt # {}
             /\ MemberAt # {} => gc.call.lookups = First(MemberAt)
             /\ gc.call.lookups <= Len(gc.call.groups)
             /\ gc.call.groups = <<>> => ~gc.call.result
    /\ (gc.phase = "on" /\ gc.op.kind = "all")
          => /\ gc.call.result <=> (gc.call.groups # <<>> /\ NonMemberAt = {})
             /\ NonMemberAt # {} => gc.call.lookups <= First(NonMemberAt)
             /\ (NonMemberAt # {} /\ gc.call.email # "")
                   => gc.call.lookups = First(NonMemberAt)
             /\ gc.call.lookups <= Len(gc.call.groups)
             /\ gc.call.groups = <<>> => ~gc.call.result

\* in production, a user who is in the second of three listed groups: the
\* any-helper answers TRUE after two lookups and leaves the third group out
WitC24 ==
    /\ gc.phase = "on" /\ gc.op.kind = "any" /\ ~DebugMode
    /\ Len(gc.call.groups) = 3 /\ MemberAt = {2, 3}
    /\ gc.call.result /\ gc.call.lookups = 2
    /\ DOMAIN gc.cache = {<<gc.call.email, "g2", FALSE>>, <<gc.call.email, "g1", FALSE>>}

StatsDone == gc.phase = "on" /\ gc.op.kind = "stats"

\* the stored entries whose age has reached the TTL
ExpiredKeys(cache) == {k \in DOMAIN cache : now - cache[k].cached_time >= CacheTTL}

\* the report counts every stored entry once, as valid or as expired by its
\* age at the call, and the call leaves the cache as it was
StatsReport ==
    /\ gc.op.stats.total_entries = Cardinality(DOMAIN gc.cache)
    /\ gc.op.stats.expired_entries = Cardinality(ExpiredKeys(gc.cache))
    /\ gc.op.stats.valid_entries = Cardinality(DOMAIN gc.cache \ ExpiredKeys(gc.cache))
    /\ gc.op.stats.total_entries = gc.op.stats.valid_entries + gc.op.stats.expired_entries
    /\ gc.cache = gc.op.before

\* an expired entry is removed or replaced only by a lookup of its own key
\* or by a clear
ExpiredStays ==
    \A k \in ExpiredKeys(gc.cache) :
        (k \notin DOMAIN gc'.cache \/ gc'.cache[k] # gc.cache[k])
            => \/ gc'.op.kind \in {"clear_user", "clear_all"}
               \/ /\ gc'.op.kind = "lookup"
                  /\ k = <<Strip(Lower(gc'.op.email)), Strip(gc'.op.group), DebugMode>>

\* C25: get_cache_stats reports total_entries = valid_entries +
\* expired_entries, each stored entry classified by now - recorded_at < TTL
\* at the moment of the call, and does not modify the cache: an expired
\* entry stays stored, and is counted as expired, until a lookup of its own
\* key or a clear removes it.
ThmC25 ==
    /\ [](StatsDone => StatsReport)
    /\ [][ExpiredStays]_vars

\* a report over a cache that holds one entry of age 300 s and one younger
\* entry: total 2, valid 1, expired 1
WitC25 ==
    /\ StatsDone
    /\ gc.op.stats.total_entries = 2
    /\ gc.op.stats.valid_entries = 1 /\ gc.op.stats.expired_entries = 1
    /\ \E k \in DOMAIN gc.cache : now - gc.cache[k].cached_time = CacheTTL

\* the answer the directory in force gives for the key of the last lookup
AnswerOf(d) == <<OpKey[1], OpKey[2]>> \in d

\* a clear of the user `email` (or of everything) was the last call
Cleared(email) ==
    \/ gc.op.kind = "clear_all"
    \/ gc.op.kind = "clear_user" /\ gc.op.email # "" /\ OpEmail = email

\* the lookup that follows a clear answers as the directory does now
LookupAfterClearIsCurrent ==
    (/\ ~DebugMode
     /\ gc'.op.kind = "lookup"
     /\ Strip(Lower(gc'.op.email)) # "" /\ Strip(gc'.op.group) # ""
     /\ Cleared(Strip(Lower(gc'.op.email))))
        => gc'.op.result
              = (<<Strip(Lower(gc'.op.email)), Strip(gc'.op.group)>> \in gc.directory)

\* C38: in non-bypass mode every value a lookup returns is the answer the
\* pluggable check gave, or gives, for that (email, group) at an instant
\* less than the TTL (300 s) before the lookup, so a grant or a revocation
\* shows in the lookups no later than 300 s after it; and the lookup that
\* follows a clear of the user's entries shows it at once.
ThmC38 ==
    /\ []((LookupDone /\ ~DebugMode /\ OpKey[1] # "" /\ OpKey[2] # "")
             => \E h \in gc.hist :
                   /\ h[1] <= now /\ now - h[1] < CacheTTL
                   /\ gc.op.result = AnswerOf(h[2]))
    /\ [][LookupAfterClearIsCurrent]_vars

\* 300 s after a revocation a lookup answers FALSE where the entry it found
\* said TRUE
WitC38 ==
    /\ LookupDone /\ ~DebugMode /\ OpKey[1] # "" /\ OpKey[2] # ""
    /\ OpKey \in DOMAIN gc.op.before /\ gc.op.before[OpKey].is_member
    /\ OpAge = CacheTTL
    /\ ~gc.op.result

(***************************************************************************)
(* Claims about the credential hasher (checked under SpecKey).             *)
(***************************************************************************)
IsHexString(h) == \A i \in 1..Len(h) : h[i] \in HexChars

\* C12: verify_api_key(x, hash_api_key(x)) is true for every raw key x, and
\* two calls of hash_api_key(x) return different values, each exactly 128
\* hex characters long.
ThmC12 ==
    /\ kv.phase \in {"hashed", "verified", "corrupted"} =>
          /\ kv.h1 # kv.h2
          /\ Len(kv.h1) = 128 /\ IsHexString(kv.h1)
          /\ Len(kv.h2) = 128 /\ IsHexString(kv.h2)
    /\ (kv.phase = "verified" /\ kv.token = kv.key) => (kv.result /\ ~kv.raised)

WitC12 ==
    /\ kv.phase = "verified" /\ kv.token = kv.key /\ kv.result
    /\ kv.h1 # kv.h2 /\ Len(kv.h2) = 128

\* C13 as stated: verify_api_key(x, s) returns false and raises nothing for
\* every stored value s that is truncated, of odd length, or contains a
\* character that is not a hex digit.
CexC13 ==
    (/\ kv.phase = "corrupted"
     /\ \/ Len(kv.stored) < Len(kv.h1)
        \/ Len(kv.stored) % 2 = 1
        \/ \E i \in 1..Len(kv.stored) : kv.stored[i] \notin HexChars \cup UpperHexChars) =>
        (~kv.result /\ ~kv.raised)

(***************************************************************************)
(* Claims about the verifier (checked under SpecHmac).                     *)
(***************************************************************************)
HmVerified == hm.phase = "verified"

\* the signature is the one a holder of the server's secret computes for
\* (timestamp, body) as sent
HmCorrectlySigned == hm.how = "raw" /\ hm.signer = hm.secret /\ hm.inst >= 0

\* C7: given a signature correctly computed for (secret, timestamp, body),
\* verify_hmac_signature returns true when |now - timestamp| <= skew_seconds
\* and false when |now - timestamp| > skew_seconds, for timestamps older and
\* newer than now
ThmC7 ==
    (HmVerified /\ HmCorrectlySigned) =>
        (hm.strict <=> Abs(now - hm.inst) <= hm.skew)

WitC7 ==
    /\ HmVerified /\ HmCorrectlySigned
    /\ hm.skew = DefaultSkewSeconds
    /\ hm.inst = now + hm.skew
    /\ hm.strict

\* C9 as stated: after an accepted request, changing any single byte of the
\* body, the timestamp or the signature hex makes verification return false
CexC9 == hm.phase = "tampered" => ~hm.flexible

\* C9 amended: changing a single byte of the timestamp or of the signature
\* hex makes verification return false; changing a single byte of the body
\* makes it return false unless the changed body still parses as JSON and
\* its canonical re-serialization is exactly the bytes that were signed
ThmC9 ==
    hm.phase = "tampered" =>
        /\ hm.field \in {"timestamp", "signature"} => ~hm.flexible
        /\ (hm.field = "body" /\ hm.flexible) =>
              LET r == json_loads(hm.body)
              IN  r.ok /\ DumpValue(r.val) = hm.signed_body

WitC9 ==
    /\ hm.phase = "tampered" /\ hm.field = "body"
    /\ json_loads(hm.body).ok
    /\ ~hm.flexible

\* C10: a signature over the canonical re-serialization of the value verifies
\* a differently formatted encoding of the value through the fallback; a
\* signature over JSON with different content verifies no formatting of it
ThmC10 ==
    (HmVerified /\ hm.is_json /\ hm.signer = hm.secret) =>
        /\ (hm.how = "canonical" /\ hm.inst >= 0 /\ Abs(now - hm.inst) <= hm.skew) =>
              /\ hm.flexible
              /\ hm.body # hm.signed_body => ~hm.strict
        /\ hm.how = "other" => ~hm.flexible

WitC10 ==
    /\ HmVerified /\ hm.is_json /\ hm.how = "canonical"
    /\ DOMAIN hm.obj = KeyNames
    /\ hm.body = Render(hm.obj, [desc |-> TRUE, item |-> <<",">>, key |-> <<":">>])
    /\ hm.flexible /\ ~hm.strict

\* the verifiers have been applied to the inputs at hand
HmApplied == hm.phase \in {"verified", "tampered", "reprefixed"}

\* the timestamp as sent is an instant at most skew seconds from now
HmInWindow ==
    /\ ParseTimestamp(hm.timestamp).ok
    /\ Abs(now - ParseTimestamp(hm.timestamp).ts) <= hm.skew

HmHasPrefix ==
    /\ Len(hm.signature) >= 7
    /\ SubSeq(hm.signature, 1, 7) = <<"s", "h", "a", "2", "5", "6", "=">>

\* C39: verify_hmac_signature_flexible returns true only if the timestamp
\* is within the skew window and the signature header has the sha256=
\* prefix: the canonical-JSON fallback accepts no request that the
\* replay-window check or the prefix check rejects.
ThmC39 == (HmApplied /\ hm.flexible) => (HmInWindow /\ HmHasPrefix)

\* the fallback is what decides: a body whose canonical form carries a
\* correct signature is rejected one second past the window and with
\* another prefix, although it is accepted inside the window
WitC39 ==
    /\ hm.phase = "verified" /\ hm.how = "canonical" /\ hm.body # hm.signed_body
    /\ hm.signer = hm.secret
    /\ hm.inst = now - hm.skew - 1
    /\ ~hm.flexible

WitC39Prefix ==
    /\ hm.phase = "reprefixed" /\ hm.how = "canonical" /\ hm.body # hm.signed_body
    /\ hm.signer = hm.secret /\ hm.inst = now
    /\ ~hm.flexible

(***************************************************************************)
(* Claims about the group-gated resources and the image routes (checked    *)
(* under SpecImages).  The oracle's answer for a call is the value         *)
(* is_user_in_group returns on the cache and at the instant the call       *)
(* starts from.                                                            *)
(***************************************************************************)
Oracle(email, group) == is_user_in_group(gc.cache, email, group).result

GateCall(op) == op.kind \in {"get_project", "get_image", "requires"}

\* the resource a gate call names, <<>> when there is no such row
GateResource(op) ==
    CASE op.kind = "get_project" -> get_project(op.project_id)
      [] op.kind = "get_image"   -> get_data_instance(db.images, op.image_id)
      [] OTHER                   -> <<TRUE>>

GateGroup(op) ==
    CASE op.kind = "get_project" -> Projects[op.project_id].meta_group_id
      [] op.kind = "get_image"   -> ProjectGroup(db.images[op.image_id])
      [] OTHER                   -> op.group

GateAnswer ==
    GateCall(db'.op) =>
        IF GateResource(db'.op) = <<>>
        THEN db'.op.status = 404 /\ db'.op.data = <<>>
        ELSE IF Oracle(db'.op.email, GateGroup(db'.op))
        THEN db'.op.status = 200 /\ db'.op.data = GateResource(db'.op)
        ELSE db'.op.status = 403 /\ db'.op.data = <<>>

\* C32: get_project_or_403, get_image_or_403 and requires_group_membership
\* return the resource exactly when the membership oracle answers true for
\* the caller's email and the resource's group id; when it answers false the
\* call is answered 403 and carries no resource data.
ThmC32 == [][GateAnswer]_vars

WitC32 ==
    /\ db.phase = "images" /\ db.op.kind = "get_image" /\ db.op.image_id = "i1"
    /\ db.op.email = "user1@example.com" /\ ~DebugMode
    /\ db.op.status = 403 /\ db.op.data = <<>>

WitC32Member ==
    /\ db.phase = "images" /\ db.op.kind = "get_project"
    /\ db.op.status = 200 /\ db.op.data = <<Projects["p1"]>>

\* a restore request that names the image under its project
RestoreOf(op) == op.kind = "restore" /\ op.image_id = "i1" /\ op.project_id = "p1"

PermanentStays ==
    db.images["i1"].storage_deleted
        => db'.images["i1"].storage_deleted /\ db'.images["i1"].deleted_at # <<>>

RestoreOfPermanent ==
    (RestoreOf(db'.op) /\ db.images["i1"].storage_deleted)
        => db'.op.status = 409 /\ db'.op.data = <<>> /\ db'.images = db.images

RestoreWithinRetention ==
    LET image == db.images["i1"]
    IN  (RestoreOf(db'.op) /\ image.deleted_at # <<>> /\ ~image.storage_deleted)
            => /\ db'.images["i1"].deleted_at = <<>> <=> db'.op.status = 200
               /\ db'.op.status = 200 => now <= image.pending_hard_delete_at[1]
               /\ (now > image.pending_hard_delete_at[1] /\ Oracle(db'.op.email, "g1"))
                      => db'.op.status = 410 /\ db'.images = db.images

\* C37: once an image's storage has been force-deleted (storage_deleted is
\* true), every later restore request for it is answered 409 and the image
\* stays deleted; a soft-deleted image is restored only while the clock has
\* not passed its retention deadline, and a member's restore after the
\* deadline is answered 410 and changes nothing.
ThmC37 == [][PermanentStays /\ RestoreOfPermanent /\ RestoreWithinRetention]_vars

WitC37 ==
    /\ db.phase = "images" /\ RestoreOf(db.op) /\ db.op.status = 409
    /\ db.images["i1"].storage_deleted /\ db.images["i1"].deleted_at # <<>>

WitC37Expired ==
    /\ db.phase = "images" /\ RestoreOf(db.op) /\ db.op.status = 410
    /\ db.images["i1"].deleted_at # <<>>
    /\ now = db.images["i1"].pending_hard_delete_at[1] + 1

WitC37Restored ==
    /\ db.phase = "images" /\ RestoreOf(db.op) /\ db.op.status = 200
    /\ now = Now0 + RetentionDays * SecondsPerDay
    /\ db.op.email = "user2@example.com" /\ ~DebugMode

\* CexC40: C40 as stated: a restore request by a caller for whom the oracle
\* answers false is answered 403 and carries no image data, whatever state
\* the image is in.
CexC40 ==
    [][(RestoreOf(db'.op) /\ ~Oracle(db'.op.email, "g1"))
          => db'.op.status = 403 /\ db'.op.data = <<>>]_vars

(***************************************************************************)
(* Claims about the analysis status (checked under SpecAnalysis and        *)
(* SpecRace).                                                              *)
(***************************************************************************)
TerminalStatuses == {"completed", "failed", "canceled"}

UpdateEdges ==
    {<<"queued", "processing">>, <<"queued", "canceled">>, <<"processing", "completed">>,
     <<"processing", "failed">>, <<"processing", "canceled">>}

FinalizeEdges == {<<"queued", "completed">>, <<"queued", "failed">>}

EdgesOf(kind) == IF kind = "finalize" THEN UpdateEdges \cup FinalizeEdges ELSE UpdateEdges

StatusEdge == <<db.analyses["a1"].status, db'.analyses["a1"].status>>

StatusAlongEdges ==
    StatusEdge[1] # StatusEdge[2]
        => /\ db'.op.status = 200 /\ db'.op.analysis_id = "a1"
           /\ StatusEdge \in EdgesOf(db'.op.kind)
           /\ StatusEdge[2] = StatusLower(db'.op.new)

TerminalStays == StatusEdge[1] \in TerminalStatuses => StatusEdge[2] = StatusEdge[1]

\* the call asks for a change of the stored status that is not an edge
AsksIllegal(op) ==
    /\ op.analysis_id = "a1" /\ op.new # None
    /\ StatusLower(op.new) # db.analyses["a1"].status
    /\ <<db.analyses["a1"].status, StatusLower(op.new)>> \notin EdgesOf(op.kind)

RejectedWith409 ==
    /\ db'.op.status = 409 => db'.analyses = db.analyses /\ AsksIllegal(db'.op)
    /\ (AsksIllegal(db'.op) /\ db'.op.status \notin {401, 403, 500})
            => db'.op.status = 409

\* C35: over any sequence of status updates and finalize calls the status of
\* an analysis changes only along queued->processing, queued->canceled,
\* processing->completed|failed|canceled and, by finalize, queued->
\* completed|failed; a completed, failed or canceled analysis keeps its
\* status; a transition that is not one of these is answered 409 and leaves
\* the row as it was.
ThmC35 == [][StatusAlongEdges /\ TerminalStays /\ RejectedWith409]_vars

WitC35 ==
    /\ db.phase = "analyses" /\ db.op.kind = "patch" /\ db.op.new = "queued"
    /\ db.op.status = 409 /\ db.analyses["a1"].status = "completed"
    /\ db.analyses["a1"].started_at # <<>>

WitC35Finalize ==
    /\ db.phase = "analyses" /\ db.op.kind = "finalize" /\ db.op.new = "failed"
    /\ db.op.status = 200 /\ db.analyses["a1"].status = "failed"
    /\ db.analyses["a1"].error_message = <<"Out of memory">>

\* a status update that went through was decided on the stored status
UpdateSeesStored ==
    (db.phase = "race" /\ db.op.kind = "patch" /\ db.op.applied)
        => db.op.based_on = db.op.stored

\* CexC36: C36 as stated: whatever the interleaving of the status updates
\* and finalize calls in flight on one analysis, every change that is applied
\* was decided on the status stored when it is written, and a completed,
\* failed or canceled analysis keeps its status.
CexC36 ==
    /\ [](db.op.applied => db.op.based_on = db.op.stored)
    /\ [][TerminalStays]_vars

(***************************************************************************)
(* Claims about the shared cache under concurrent requests (checked under  *)
(* SpecLoop).                                                              *)
(***************************************************************************)
WellFormedCache ==
    /\ DOMAIN gc.cache \subseteq TaskEmails \X {"g1"} \X BOOLEAN
    /\ \A k \in DOMAIN gc.cache :
          gc.cache[k] \in [is_member : BOOLEAN, cached_time : {Now0, Now0 + CacheTTL}]

NoTaskFailed == \A r \in Tasks : gc.tasks[r].pc # "failed"

\* C33: with several requests in flight that look up memberships, clear one
\* user's entries and clear the whole cache, every interleaving leaves the
\* cache a map from keys to one (is_member, cached_time) pair each, and no
\* call fails because another request removed or replaced an entry between
\* its membership test and its read or del.
ThmC33 == gc.phase = "loop" => (WellFormedCache /\ NoTaskFailed)

WitC33 ==
    /\ gc.phase = "loop" /\ gc.last.kind = "lookup" /\ gc.last.path = "expired"
    /\ gc.last.in_flight \cap {"clear_user", "clear_all"} # {}
    /\ \E r \in Tasks : gc.tasks[r].pc = "await" /\ gc.tasks[r].kind = "clear_all"
    /\ DOMAIN gc.cache # {}

====
